---- MODULE Spec2Model ----
(***************************************************************************)
(* A model of the lldb-eval expression front-end (src/lldb-eval/parser.cc):*)
(* the recursive-descent parser Parser::Run with its tentative-parsing     *)
(* snapshots, bail-out error slot and symbol-resolver queries.             *)
(*                                                                         *)
(* The parser runs as a stack machine.  stack holds the activation records *)
(* of the Parse* routines in progress, each with the place (pc) at which   *)
(* the routine resumes and its local variables; ret holds the value the    *)
(* last routine returned.  One action per routine executes the routine     *)
(* from its pc up to its next call of a recursive routine or its return.   *)
(* Routines that call no recursive routine (ConsumeToken, BailOut, Expect, *)
(* the snapshot operations, the literal parsers, ...) are operators on the *)
(* record p of the parser's fields.  The field log is a history of the     *)
(* calls made to BailOut, to the snapshots and to the resolver; it changes *)
(* nothing the parser computes.                                            *)
(***************************************************************************)
EXTENDS Integers, Sequences, FiniteSets, TLC

VARIABLES
  steps,    \* the number of steps the parse has taken (history only)
  tokens,   \* the classified tokens of the expression text (clang's lexer)
  types,    \* names Context::ResolveTypeByName resolves
  values,   \* names Context::LookupIdentifier resolves
  status,   \* "constructed" | "running" | "returned"; "literal" | "picked";
            \* "called" | "built" | "answered"
  token_,   \* Parser::token_
  pos,      \* the preprocessor's position: index of the next token to lex
  marks,    \* the preprocessor's stack of backtrack positions
  error_,   \* Parser::error_
  stack,    \* activation records of the routines in progress, innermost last
  ret,      \* the value returned by the routine that returned last
  expr,     \* the ExprResult Run returned
  error,    \* Run's out-parameter
  log,      \* history of BailOut / snapshot / resolver calls of the parse
  target,   \* the widths of int, long and long long of the build
  int_literal, \* the literal PickIntegerType is called on alone
  picked,   \* the type PickIntegerType returned for literal
  call,     \* a free function or method called alone, with its arguments
  result    \* what that call returned

vars == <<steps, tokens, types, values, status, token_, pos, marks, error_,
          stack, ret, expr, error, log, target, int_literal, picked, call,
          result>>

-----------------------------------------------------------------------------
(* Bounds of the model.                                                    *)

\* longest token sequence of the general specification
MaxLen == 4
\* most binary operators in an input of the operator-ladder specification
MaxOps == 2
\* most separators (? : ||) in an input of the conditional specification
MaxSeps == 4
\* most type specifiers in a cast of the type-name specification
MaxTypenames == 3
\* most characters of a buffer handed to the diagnostics renderer
MaxText == 4
\* most postfix steps after the primary expression of the postfix
\* specification
MaxPostfix == 3
\* most steps a parse is followed for
MaxSteps == 2000

-----------------------------------------------------------------------------
(* Tokens: kind (clang::tok::TokenKind), spelling.                         *)

Tok(k, s) == [kind |-> k, sp |-> s]

Ident(s) == Tok("identifier", s)
Num(s) == Tok("numeric_constant", s)
L_PAREN == Tok("l_paren", "(")
R_PAREN == Tok("r_paren", ")")
COLONCOLON == Tok("coloncolon", "::")
LESS == Tok("less", "<")
GREATER == Tok("greater", ">")
COMMA == Tok("comma", ",")
QUESTION == Tok("question", "?")
COLON == Tok("colon", ":")
PLUSPLUS == Tok("plusplus", "++")
MINUSMINUS == Tok("minusminus", "--")
KW_THIS == Tok("kw_this", "this")
KW_INT == Tok("kw_int", "int")
KW_SHORT == Tok("kw_short", "short")
KW_LONG == Tok("kw_long", "long")
KW_UNSIGNED == Tok("kw_unsigned", "unsigned")
STAR == Tok("star", "*")
AMP == Tok("amp", "&")
PLUS == Tok("plus", "+")
MINUS == Tok("minus", "-")
PIPEPIPE == Tok("pipepipe", "||")
LESSLESS == Tok("lessless", "<<")
PERIOD == Tok("period", ".")
L_SQUARE == Tok("l_square", "[")
R_SQUARE == Tok("r_square", "]")
ARROW == Tok("arrow", "->")
EQUAL == Tok("equal", "=")

\* The token pp_->Lex yields at index i: past the text it is end-of-input.
TokenAt(i) ==
  IF i <= Len(tokens)
    THEN [kind |-> tokens[i].kind, sp |-> tokens[i].sp, loc |-> i]
    ELSE [kind |-> "eof", sp |-> "", loc |-> Len(tokens) + 1]

\* Token::is / isNot / isOneOf
Is(p, k) == p.tok.kind = k
IsOneOf(p, ks) == p.tok.kind \in ks

\* pp_->getSpelling(token_): the text at the token's location, whatever
\* kind BailOut has forced on it.
getSpelling(p) == p.tok.sp

\* pp_->LookAhead(0): the token after the current one, not consumed.
LookAhead0(p) == TokenAt(p.pos)

-----------------------------------------------------------------------------
(* The error slot.                                                         *)

NoError == [code |-> "kOk", message |-> <<>>]

\* FormatDiagnostics: the message rendered at a location (here the pair).
FormatDiagnostics(message, loc) == <<message, loc>>

NoCall == [fn |-> ""]

IsSet(e) == e.code # "kOk"

-----------------------------------------------------------------------------
(* Parser fields and primitives.                                           *)

\* Parser::Parser: token_ is tok::unknown, nothing lexed, no error.
InitialParser ==
  [ tok |-> [kind |-> "unknown", sp |-> "", loc |-> 0],
    pos |-> 1,
    marks |-> <<>>,
    err |-> NoError,
    log |-> <<>> ]

Logged(p, e) == [p EXCEPT !.log = Append(@, e)]

\* A ConsumeToken that lexes whatever the current token is.
ConsumeTokenAtEof(p) == [p EXCEPT !.tok = TokenAt(p.pos), !.pos = p.pos + 1]

\* Parser::ConsumeToken
ConsumeToken(p) ==
  IF Is(p, "eof")
    THEN p
    ELSE [p EXCEPT !.tok = TokenAt(p.pos), !.pos = p.pos + 1]

\* A BailOut in which the last error wins.
BailOutOverwrites(p, code, message, loc) ==
  Logged([p EXCEPT !.err = [code |-> code,
                            message |-> FormatDiagnostics(message, loc)],
                   !.tok.kind = "eof"],
         <<"bail", code, loc, TRUE>>)

\* A BailOut that stores the error and leaves the current token as it is.
BailOutKeepsToken(p, code, message, loc) ==
  IF IsSet(p.err)
    THEN Logged(p, <<"bail", code, loc, FALSE>>)
    ELSE Logged([p EXCEPT !.err = [code |-> code,
                                   message |-> FormatDiagnostics(message, loc)]],
                <<"bail", code, loc, TRUE>>)

\* Parser::BailOut
BailOut(p, code, message, loc) ==
  IF IsSet(p.err)
    THEN Logged(p, <<"bail", code, loc, FALSE>>)
    ELSE Logged([p EXCEPT !.err = [code |-> code,
                                   message |-> FormatDiagnostics(message, loc)],
                          !.tok.kind = "eof"],
                <<"bail", code, loc, TRUE>>)

\* An Expect that accepts whatever the current token is.
ExpectUnchecked(p, kind) == p

\* Parser::Expect
Expect(p, kind) ==
  IF ~Is(p, kind)
    THEN BailOut(p, "kUnknown", <<"expected", kind, p.tok.sp>>, p.tok.loc)
    ELSE p

\* Parser::ExpectOneOf
ExpectOneOf(p, kinds) ==
  IF ~IsOneOf(p, kinds)
    THEN BailOut(p, "kUnknown", <<"expected any of", kinds, p.tok.sp>>,
                 p.tok.loc)
    ELSE p

-----------------------------------------------------------------------------
(* TentativeParsingAction (declared in parser.h).  A snapshot keeps the    *)
(* current token (backtrack_token_) and has the preprocessor push the      *)
(* position to return to.  Snapshots are resolved innermost first, so      *)
(* marks holds, per open snapshot, the position with the kept token.       *)

\* TentativeParsingAction(parser): backtrack_token_ = token_,
\* pp_->EnableBacktrackAtThisPos().
Tentative(p, site) ==
  Logged([p EXCEPT !.marks = Append(@, [pos |-> p.pos,
                                        backtrack_token_ |-> p.tok])],
         <<"acquire", site, p.tok.loc, p.pos, p.err.code>>)

\* TentativeParsingAction::Commit: pp_->CommitBacktrackedTokens().
Commit(p, site) ==
  Logged([p EXCEPT !.marks = SubSeq(@, 1, Len(@) - 1)],
         <<"commit", site, p.err.code>>)

\* A rollback that restores the position and keeps the error.
RollbackKeepsError(p, site) ==
  LET mark == p.marks[Len(p.marks)]
  IN  Logged([p EXCEPT !.pos = mark.pos,
                       !.marks = SubSeq(@, 1, Len(@) - 1),
                       !.tok = mark.backtrack_token_],
             <<"rollback", site, mark.backtrack_token_.loc, mark.pos,
               p.err.code>>)

\* TentativeParsingAction::Rollback: pp_->Backtrack(), error_.Clear(),
\* token_ = backtrack_token_.
Rollback(p, site) ==
  LET mark == p.marks[Len(p.marks)]
  IN  Logged([p EXCEPT !.pos = mark.pos,
                       !.marks = SubSeq(@, 1, Len(@) - 1),
                       !.err = NoError,
                       !.tok = mark.backtrack_token_],
             <<"rollback", site, mark.backtrack_token_.loc, mark.pos,
               p.err.code>>)

-----------------------------------------------------------------------------
(* Strings.                                                                *)

\* std::string::find: the first index at which old_value occurs, 0 if none.
Find(str, old_value) ==
  LET hits == {i \in 1..(Len(str) - Len(old_value) + 1) :
                 SubSeq(str, i, i + Len(old_value) - 1) = old_value}
  IN  IF hits = {} THEN 0 ELSE CHOOSE i \in hits : \A j \in hits : i <= j

\* StringReplace: replaces the first occurrence only.
StringReplace(str, old_value, new_value) ==
  LET at == Find(str, old_value)
  IN  IF at # 0
        THEN SubSeq(str, 1, at - 1) \o new_value
               \o SubSeq(str, at + Len(old_value), Len(str))
        ELSE str

\* llvm::formatv("{0:$[sep]}", range)
RECURSIVE Join(_, _)
Join(strs, sep) ==
  IF Len(strs) = 0 THEN ""
  ELSE IF Len(strs) = 1 THEN strs[1]
  ELSE strs[1] \o sep \o Join(Tail(strs), sep)

-----------------------------------------------------------------------------
(* TypeDeclaration.                                                        *)

EmptyTypeDeclaration == [typenames_ |-> <<>>, ptr_operators_ |-> <<>>]

\* TypeDeclaration::IsValid (parser.h): the typename sequence is non-empty.
IsValid(type_decl) == Len(type_decl.typenames_) > 0

\* TypeDeclaration::GetBaseName
GetBaseName(type_decl) ==
  StringReplace(StringReplace(Join(type_decl.typenames_, " "),
                              "short int", "short"),
                "long int", "long")

RECURSIVE PtrOperatorsText(_)
PtrOperatorsText(ops) ==
  IF Len(ops) = 0 THEN ""
  ELSE (IF Head(ops) = "star" THEN "*"
        ELSE IF Head(ops) = "amp" THEN "&" ELSE "")
       \o PtrOperatorsText(Tail(ops))

\* TypeDeclaration::GetName
GetName(type_decl) ==
  GetBaseName(type_decl)
    \o (IF Len(type_decl.ptr_operators_) > 0 THEN " " ELSE "")
    \o PtrOperatorsText(type_decl.ptr_operators_)

-----------------------------------------------------------------------------
(* lldb::SBType as the parser uses it: valid or not, the resolved base     *)
(* name and the declarators applied to it.                                 *)

NullType == [valid |-> FALSE, name |-> "", ops |-> <<>>]

\* SBType::IsReferenceType
IsReferenceType(type) ==
  Len(type.ops) > 0 /\ type.ops[Len(type.ops)] = "amp"

\* Parser::IsSimpleTypeSpecifierKeyword
IsSimpleTypeSpecifierKeyword(p) ==
  IsOneOf(p, {"kw_char", "kw_char16_t", "kw_char32_t", "kw_wchar_t",
              "kw_bool", "kw_short", "kw_int", "kw_long", "kw_signed",
              "kw_unsigned", "kw_float", "kw_double", "kw_void"})

\* Parser::IsCvQualifier
IsCvQualifier(p) == IsOneOf(p, {"kw_const", "kw_volatile"})

\* Parser::IsPtrOperator
IsPtrOperator(p) == IsOneOf(p, {"star", "amp"})

\* Parser::ResolveTypeFromTypeDecl, with Context::ResolveTypeByName
ResolveTypeFromTypeDecl(p, type_decl) ==
  IF ~IsValid(type_decl)
    THEN [p |-> p, v |-> NullType]
    ELSE LET name == GetBaseName(type_decl)
             found == name \in types
         IN  [p |-> Logged(p, <<"resolve", name, found>>),
              v |-> IF found
                      THEN [valid |-> TRUE, name |-> name, ops |-> <<>>]
                      ELSE NullType]

\* Parser::ResolveTypeDeclarators
RECURSIVE ResolveTypeDeclarators(_, _, _)

\* Declarators applied without looking at the type built so far.
ResolveTypeDeclaratorsUnchecked(p, type, ptr_operators_) ==
  [p |-> p, v |-> [type EXCEPT !.ops = @ \o ptr_operators_]]

ResolveTypeDeclarators(p, type, ptr_operators_) ==
  IF Len(ptr_operators_) = 0
    THEN [p |-> p, v |-> type]
    ELSE LET tk == Head(ptr_operators_)
         IN  IF tk = "star"
               THEN IF IsReferenceType(type)
                      THEN [p |-> BailOut(p, "kInvalidOperandType",
                                          <<"pointer to a reference", type.name>>,
                                          p.tok.loc),
                            v |-> NullType]
                      ELSE ResolveTypeDeclarators(
                             p, [type EXCEPT !.ops = Append(@, "star")],
                             Tail(ptr_operators_))
             ELSE IF tk = "amp"
               THEN IF IsReferenceType(type)
                      THEN [p |-> BailOut(p, "kInvalidOperandType",
                                          <<"reference to a reference">>,
                                          p.tok.loc),
                            v |-> NullType]
                      ELSE ResolveTypeDeclarators(
                             p, [type EXCEPT !.ops = Append(@, "amp")],
                             Tail(ptr_operators_))
             ELSE ResolveTypeDeclarators(p, type, Tail(ptr_operators_))

\* Parser::ParsePtrOperator
RECURSIVE SkipCvQualifiers(_)
SkipCvQualifiers(p) ==
  IF IsCvQualifier(p) THEN SkipCvQualifiers(ConsumeToken(p)) ELSE p

ParsePtrOperator(p, type_decl) ==
  LET p1 == ExpectOneOf(p, {"star", "amp"})
  IN  IF Is(p1, "star")
        THEN [p |-> SkipCvQualifiers(ConsumeToken(p1)),
              v |-> [type_decl EXCEPT !.ptr_operators_ = Append(@, "star")]]
      ELSE IF Is(p1, "amp")
        THEN [p |-> ConsumeToken(p1),
              v |-> [type_decl EXCEPT !.ptr_operators_ = Append(@, "amp")]]
      ELSE [p |-> p1, v |-> type_decl]

-----------------------------------------------------------------------------
(* Routines of the name grammar that call no recursive routine.           *)

\* Parser::ParseUnqualifiedId
ParseUnqualifiedId(p) ==
  LET p1 == Expect(p, "identifier")
      identifier == getSpelling(p1)
  IN  [p |-> ConsumeToken(p1), v |-> identifier]

\* Parser::ParseTypeId: the loop over ptr_operators
RECURSIVE PtrOperatorLoop(_, _)
PtrOperatorLoop(p, type_decl) ==
  IF IsPtrOperator(p)
    THEN LET r == ParsePtrOperator(p, type_decl)
         IN  PtrOperatorLoop(r.p, r.v)
    ELSE [p |-> p, v |-> type_decl]

-----------------------------------------------------------------------------
(* Numeric literals.                                                       *)

\* type_width<T>(): sizeof(T) * CHAR_BIT of the build.
LP64 == [int_size |-> 32, long_size |-> 64, long_long_size |-> 64]
ILP32 == [int_size |-> 32, long_size |-> 32, long_long_size |-> 64]
Targets == {LP64, ILP32}

int_size == target.int_size
long_size == target.long_size
long_long_size == target.long_long_size

\* type_width<uintmax_t>(): the width of the value of an integer literal.
uintmax_width == 64

\* llvm::APInt::isIntN: the value has at most n significant bits.  A
\* magnitude is kept as its text and its number of significant bits.
isIntN(value, n) == value.bits <= n

IntegerLiteral(text, bits, radix, u, l, ll) ==
  [hadError |-> FALSE, isFloatingLiteral |-> FALSE, isIntegerLiteral |-> TRUE,
   isUnsigned |-> u, isLong |-> l, isLongLong |-> ll, isFloat |-> FALSE,
   radix |-> radix, value |-> [text |-> text, bits |-> bits],
   overflow |-> bits > uintmax_width]

FloatingLiteral(text, isFloat, overflow) ==
  [hadError |-> FALSE, isFloatingLiteral |-> TRUE, isIntegerLiteral |-> FALSE,
   isUnsigned |-> FALSE, isLong |-> FALSE, isLongLong |-> FALSE,
   isFloat |-> isFloat, radix |-> 10, value |-> [text |-> text, bits |-> 0],
   overflow |-> overflow]

BadLiteral ==
  [hadError |-> TRUE, isFloatingLiteral |-> FALSE, isIntegerLiteral |-> FALSE,
   isUnsigned |-> FALSE, isLong |-> FALSE, isLongLong |-> FALSE,
   isFloat |-> FALSE, radix |-> 10, value |-> [text |-> "", bits |-> 0],
   overflow |-> FALSE]

\* clang::NumericLiteralParser on the spellings the inputs use.
NumericLiteralParser(tok_spelling) ==
  CASE tok_spelling = "1" -> IntegerLiteral("1", 1, 10, FALSE, FALSE, FALSE)
    [] tok_spelling = "2" -> IntegerLiteral("2", 2, 10, FALSE, FALSE, FALSE)
    [] tok_spelling = "3" -> IntegerLiteral("3", 2, 10, FALSE, FALSE, FALSE)
    [] tok_spelling = "4" -> IntegerLiteral("4", 3, 10, FALSE, FALSE, FALSE)
    [] tok_spelling = "1u" -> IntegerLiteral("1", 1, 10, TRUE, FALSE, FALSE)
    [] tok_spelling = "1l" -> IntegerLiteral("1", 1, 10, FALSE, TRUE, FALSE)
    [] tok_spelling = "0xFFFFFFFF" ->
         IntegerLiteral("4294967295", 32, 16, FALSE, FALSE, FALSE)
    [] tok_spelling = "4294967295" ->
         IntegerLiteral("4294967295", 32, 10, FALSE, FALSE, FALSE)
    [] tok_spelling = "18446744073709551616" ->
         IntegerLiteral("18446744073709551616", 65, 10, FALSE, FALSE, FALSE)
    [] tok_spelling = "1.5" -> FloatingLiteral("1.5", FALSE, FALSE)
    [] tok_spelling = "1e999" -> FloatingLiteral("1e999", FALSE, TRUE)
    [] OTHER -> BadLiteral

\* A literal that may always be unsigned.
UnsignedIsAllowedAlways(literal) == TRUE

\* PickIntegerType: unsigned_is_allowed
UnsignedIsAllowed(literal) == literal.isUnsigned \/ literal.radix # 10

\* A signed type that is picked whatever the suffix.
FitsSignedIgnoresSuffix(literal, value, size) == isIntN(value, size - 1)

\* PickIntegerType: !literal.isUnsigned && value.isIntN(size - 1)
FitsSigned(literal, value, size) ==
  ~literal.isUnsigned /\ isIntN(value, size - 1)

\* An int that is tried whatever the suffix.
IntIsTriedAlways(literal) == TRUE

\* PickIntegerType: !literal.isLong && !literal.isLongLong
IntIsTried(literal) == ~literal.isLong /\ ~literal.isLongLong

\* PickIntegerType
PickIntegerType(literal, value) ==
  LET unsigned_is_allowed == UnsignedIsAllowed(literal)
  IN  IF IntIsTried(literal) /\ isIntN(value, int_size)
         /\ FitsSigned(literal, value, int_size)
        THEN "int"
      ELSE IF IntIsTried(literal) /\ isIntN(value, int_size)
              /\ unsigned_is_allowed
        THEN "unsigned int"
      ELSE IF ~literal.isLongLong /\ isIntN(value, long_size)
              /\ FitsSigned(literal, value, long_size)
        THEN "long"
      ELSE IF ~literal.isLongLong /\ isIntN(value, long_size)
              /\ unsigned_is_allowed
        THEN "unsigned long"
      ELSE IF isIntN(value, long_long_size)
              /\ FitsSigned(literal, value, long_long_size)
        THEN "long long"
      ELSE IF isIntN(value, long_long_size) /\ unsigned_is_allowed
        THEN "unsigned long long"
      ELSE "unsigned long long"

-----------------------------------------------------------------------------
(* AST nodes.                                                              *)

ErrorNode == <<"Error">>
LiteralNode(type, value) == <<"Literal", type, value>>
IdentifierNode(name, is_rvalue) == <<"Identifier", name, is_rvalue>>
UnaryOpNode(kind, rhs) == <<"Unary", kind, rhs>>
BinaryOpNode(kind, lhs, rhs) == <<"Binary", kind, lhs, rhs>>
TernaryOpNode(cond, true_val, false_val) ==
  <<"Ternary", cond, true_val, false_val>>
MemberOfNode(type, lhs, member_id) == <<"MemberOf", type, lhs, member_id>>
CStyleCastNode(type, rhs) == <<"CStyleCast", type, rhs>>

\* Parser::ParseFloatingLiteral
ParseFloatingLiteral(p, literal) ==
  IF literal.overflow
    THEN [p |-> BailOut(p, "kInvalidNumericLiteral",
                        <<"float underflow/overflow happened", p.tok.sp>>,
                        p.tok.loc),
          v |-> ErrorNode]
    ELSE [p |-> p,
          v |-> LiteralNode(IF literal.isFloat THEN "float" ELSE "double",
                            literal.value.text)]

\* Parser::ParseIntegerLiteral
ParseIntegerLiteral(p, literal) ==
  IF literal.overflow
    THEN [p |-> BailOut(p, "kInvalidNumericLiteral",
                        <<"integer literal is too large", p.tok.sp>>,
                        p.tok.loc),
          v |-> ErrorNode]
    ELSE [p |-> p,
          v |-> LiteralNode(PickIntegerType(literal, literal.value),
                            literal.value.text)]

\* Parser::ParseNumericConstant
ParseNumericConstant(p) ==
  LET literal == NumericLiteralParser(getSpelling(p))
  IN  IF literal.hadError
        THEN [p |-> BailOut(p, "kInvalidNumericLiteral",
                            <<"Failed to parse token as numeric-constant",
                              p.tok.sp>>,
                            p.tok.loc),
              v |-> ErrorNode]
      ELSE IF literal.isFloatingLiteral
        THEN ParseFloatingLiteral(p, literal)
      ELSE IF literal.isIntegerLiteral
        THEN ParseIntegerLiteral(p, literal)
      ELSE [p |-> BailOut(p, "kInvalidNumericLiteral",
                          <<"numeric-constant should be either float or integer literal",
                            p.tok.sp>>,
                          p.tok.loc),
            v |-> ErrorNode]

\* Parser::ParseNumericLiteral
ParseNumericLiteral(p) ==
  LET p1 == Expect(p, "numeric_constant")
      numeric_constant == ParseNumericConstant(p1)
  IN  [p |-> ConsumeToken(numeric_constant.p), v |-> numeric_constant.v]

\* Parser::ParseBooleanLiteral
ParseBooleanLiteral(p) ==
  LET p1 == ExpectOneOf(p, {"kw_true", "kw_false"})
      literal_value == Is(p1, "kw_true")
  IN  [p |-> ConsumeToken(p1), v |-> LiteralNode("bool", literal_value)]

\* Parser::ParsePointerLiteral
ParsePointerLiteral(p) ==
  [p |-> ConsumeToken(Expect(p, "kw_nullptr")),
   v |-> LiteralNode("nullptr_t", "nullptr")]

\* Context::LookupIdentifier
LookupIdentifier(p, name) ==
  [p |-> Logged(p, <<"lookup", name, name \in values>>),
   v |-> name \in values]

-----------------------------------------------------------------------------
(* The routines in progress.                                               *)

\* The parser's fields as one record, as the primitives above take them.
P == [tok |-> token_, pos |-> pos, marks |-> marks, err |-> error_,
      log |-> log]

\* The routine that is executing, and its callers.
Top == stack[Len(stack)]
Callers == SubSeq(stack, 1, Len(stack) - 1)

\* Routine fn is executing; it is at label l.
Running(fn) == status = "running" /\ Len(stack) > 0 /\ Top.fn = fn
At(l) == Top.pc = l

\* The activation record of a routine that has just been called.
Frame(fn) == [fn |-> fn, pc |-> "start"]

\* A step of the executing routine: the parser's fields become q, the
\* routines in progress s, the returned value r.
Update(q, s, r) ==
  /\ steps < MaxSteps
  /\ steps' = steps + 1
  /\ token_' = q.tok
  /\ pos' = q.pos
  /\ marks' = q.marks
  /\ error_' = q.err
  /\ log' = q.log
  /\ stack' = s
  /\ ret' = r
  /\ UNCHANGED <<tokens, types, values, status, expr, error, target,
                 int_literal, picked, call, result>>

\* auto x = F(): the routine waits in resume for callee's value.
Call(q, resume, callee) == Update(q, Callers \o <<resume, callee>>, ret)

\* return F(): callee's value is the routine's value.
TailCall(q, callee) == Update(q, Callers \o <<callee>>, ret)

\* return v
Return(q, v) == Update(q, Callers, v)

-----------------------------------------------------------------------------
(* Expressions.                                                            *)

\* Parser::ParseExpression
ParseExpression ==
  /\ Running("ParseExpression")
  /\ TailCall(P, Frame("ParseAssignmentExpression"))

\* Parser::ParseAssignmentExpression
ParseAssignmentExpression ==
  /\ Running("ParseAssignmentExpression")
  /\ TailCall(P, Frame("ParseConditionalExpression"))

\* A conditional whose else arm is a logical_or_expression.
FalseArmIsLogicalOr == Frame("ParseLogicalOrExpression")

\* Parser::ParseConditionalExpression: auto false_val =
\* ParseAssignmentExpression()
FalseArm == Frame("ParseAssignmentExpression")

\* Parser::ParseConditionalExpression
ParseConditionalExpression ==
  /\ Running("ParseConditionalExpression")
  /\ CASE At("start") ->
            Call(P, [fn |-> "ParseConditionalExpression", pc |-> "lhs"],
                 Frame("ParseLogicalOrExpression"))
       [] At("lhs") ->
            IF Is(P, "question")
              THEN Call(ConsumeToken(P),
                        [fn |-> "ParseConditionalExpression",
                         pc |-> "true_val", lhs |-> ret],
                        Frame("ParseExpression"))
              ELSE Return(P, ret)
       [] At("true_val") ->
            Call(ConsumeToken(Expect(P, "colon")),
                 [fn |-> "ParseConditionalExpression", pc |-> "false_val",
                  lhs |-> Top.lhs, true_val |-> ret],
                 FalseArm)
       [] At("false_val") ->
            Return(P, TernaryOpNode(Top.lhs, Top.true_val, ret))

\* One level of the ladder of binary operators:
\*   auto lhs = next();
\*   while (token_.isOneOf(kinds)) {
\*     kind = token_.getKind(); ConsumeToken(); auto rhs = next();
\*     lhs = BinaryOpNode(kind, lhs, rhs);
\*   }
\*   return lhs;
BinaryLevel(fn, next, kinds) ==
  /\ Running(fn)
  /\ IF At("start")
       THEN Call(P, [fn |-> fn, pc |-> "lhs"], Frame(next))
       ELSE LET lhs == IF At("lhs") THEN ret
                       ELSE BinaryOpNode(Top.kind, Top.lhs, ret)
            IN  IF IsOneOf(P, kinds)
                  THEN Call(ConsumeToken(P),
                            [fn |-> fn, pc |-> "rhs", kind |-> token_.kind,
                             lhs |-> lhs],
                            Frame(next))
                  ELSE Return(P, lhs)

\* Parser::ParseLogicalOrExpression
ParseLogicalOrExpression ==
  BinaryLevel("ParseLogicalOrExpression", "ParseLogicalAndExpression",
              {"pipepipe"})

\* Parser::ParseLogicalAndExpression
ParseLogicalAndExpression ==
  BinaryLevel("ParseLogicalAndExpression", "ParseInclusiveOrExpression",
              {"ampamp"})

\* Parser::ParseInclusiveOrExpression
ParseInclusiveOrExpression ==
  BinaryLevel("ParseInclusiveOrExpression", "ParseExclusiveOrExpression",
              {"pipe"})

\* Parser::ParseExclusiveOrExpression
ParseExclusiveOrExpression ==
  BinaryLevel("ParseExclusiveOrExpression", "ParseAndExpression", {"caret"})

\* Parser::ParseAndExpression
ParseAndExpression ==
  BinaryLevel("ParseAndExpression", "ParseEqualityExpression", {"amp"})

\* Parser::ParseEqualityExpression
ParseEqualityExpression ==
  BinaryLevel("ParseEqualityExpression", "ParseRelationalExpression",
              {"equalequal", "exclaimequal"})

\* Parser::ParseRelationalExpression
ParseRelationalExpression ==
  BinaryLevel("ParseRelationalExpression", "ParseShiftExpression",
              {"less", "greater", "lessequal", "greaterequal"})

\* Parser::ParseShiftExpression
ParseShiftExpression ==
  BinaryLevel("ParseShiftExpression", "ParseAdditiveExpression",
              {"lessless", "greatergreater"})

\* Parser::ParseAdditiveExpression
ParseAdditiveExpression ==
  BinaryLevel("ParseAdditiveExpression", "ParseMultiplicativeExpression",
              {"plus", "minus"})

\* Parser::ParseMultiplicativeExpression
ParseMultiplicativeExpression ==
  BinaryLevel("ParseMultiplicativeExpression", "ParseCastExpression",
              {"star", "slash", "percent"})

\* A cast attempt that consumes the "(" before the snapshot is taken.
BeginCastAttemptConsumesFirst(p) == Tentative(ConsumeToken(p), "cast")

\* Parser::ParseCastExpression: the snapshot is taken, then "(" is consumed
BeginCastAttempt(p) == ConsumeToken(Tentative(p, "cast"))

\* A cast whose operand is a whole expression.
CastOperandIsExpression == Frame("ParseExpression")

\* Parser::ParseCastExpression: auto rhs = ParseCastExpression()
CastOperand == Frame("ParseCastExpression")

\* Parser::ParseCastExpression
ParseCastExpression ==
  /\ Running("ParseCastExpression")
  /\ CASE At("start") ->
            IF Is(P, "l_paren")
              THEN Call(BeginCastAttempt(P),
                        [fn |-> "ParseCastExpression", pc |-> "type_decl"],
                        Frame("ParseTypeId"))
              ELSE TailCall(P, Frame("ParseUnaryExpression"))
       [] At("type_decl") ->
            LET type_decl == ret
                type == ResolveTypeFromTypeDecl(P, type_decl)
            IN  IF type.v.valid
                  THEN LET declared ==
                             ResolveTypeDeclarators(Commit(type.p, "cast"),
                                                    type.v,
                                                    type_decl.ptr_operators_)
                       IN  IF ~declared.v.valid
                             THEN Return(declared.p, ErrorNode)
                             ELSE Call(ConsumeToken(Expect(declared.p,
                                                           "r_paren")),
                                       [fn |-> "ParseCastExpression",
                                        pc |-> "rhs", type |-> declared.v],
                                       CastOperand)
                  ELSE TailCall(Rollback(type.p, "cast"),
                                Frame("ParseUnaryExpression"))
       [] At("rhs") ->
            Return(P, CStyleCastNode(Top.type, ret))

\* Parser::ParseUnaryExpression
ParseUnaryExpression ==
  /\ Running("ParseUnaryExpression")
  /\ IF At("start")
       THEN IF IsOneOf(P, {"plusplus", "minusminus", "star", "amp", "plus",
                           "minus", "exclaim", "tilde"})
              THEN Call(ConsumeToken(P),
                        [fn |-> "ParseUnaryExpression", pc |-> "rhs",
                         kind |-> token_.kind],
                        Frame("ParseCastExpression"))
              ELSE TailCall(P, Frame("ParsePostfixExpression"))
       ELSE Return(P, UnaryOpNode(Top.kind, ret))

\* A postfix "++" or "--" that is consumed and accepted.
PostfixIncDecAccepted(q) == ConsumeToken(q)

\* Parser::ParsePostfixExpression: case plusplus, minusminus
PostfixIncDec(q) ==
  BailOut(q, "kNotImplemented",
          <<"We don't support postfix inc/dec yet", q.tok.sp>>, q.tok.loc)

\* A member access that is always one of an object.
MemberOfTypeIsObject(q) == "OF_OBJECT"

\* Parser::ParsePostfixExpression: case period, arrow: auto type = ...
MemberOfType(q) == IF Is(q, "period") THEN "OF_OBJECT" ELSE "OF_POINTER"

\* Parser::ParsePostfixExpression: the while loop, entered with lhs
PostfixLoop(q, lhs) ==
  IF IsOneOf(q, {"period", "arrow"})
    THEN Call(ConsumeToken(q),
              [fn |-> "ParsePostfixExpression", pc |-> "member_id",
               type |-> MemberOfType(q), lhs |-> lhs],
              Frame("ParseIdExpression"))
  ELSE IF IsOneOf(q, {"plusplus", "minusminus"})
    THEN Return(PostfixIncDec(q), ErrorNode)
  ELSE IF Is(q, "l_square")
    THEN Call(ConsumeToken(q),
              [fn |-> "ParsePostfixExpression", pc |-> "rhs", lhs |-> lhs],
              Frame("ParseExpression"))
  ELSE Return(q, lhs)

\* Parser::ParsePostfixExpression
ParsePostfixExpression ==
  /\ Running("ParsePostfixExpression")
  /\ CASE At("start") ->
            Call(P, [fn |-> "ParsePostfixExpression", pc |-> "lhs"],
                 Frame("ParsePrimaryExpression"))
       [] At("lhs") ->
            PostfixLoop(P, ret)
       [] At("member_id") ->
            PostfixLoop(P, MemberOfNode(Top.type, Top.lhs, ret))
       [] At("rhs") ->
            PostfixLoop(ConsumeToken(Expect(P, "r_square")),
                        BinaryOpNode("l_square", Top.lhs, ret))

\* An identifier that yields a node whether or not the context binds it.
IdentifierValueUnchecked(q, identifier, loc, message, is_rvalue) ==
  Return(LookupIdentifier(q, identifier).p,
         IdentifierNode(identifier, is_rvalue))

\* Parser::ParsePrimaryExpression: the value of a parsed identifier
IdentifierValue(q, identifier, loc, message, is_rvalue) ==
  LET value == LookupIdentifier(q, identifier)
  IN  IF ~value.v
        THEN Return(BailOut(value.p, "kUndeclaredIdentifier", message, loc),
                    ErrorNode)
        ELSE Return(value.p, IdentifierNode(identifier, is_rvalue))

\* A primary expression that reports an unexpected token as kUnknown.
UnexpectedTokenIsUnknown(p) ==
  BailOut(p, "kUnknown", <<"Unexpected token", p.tok.sp>>, p.tok.loc)

\* Parser::ParsePrimaryExpression: no primary expression starts here
UnexpectedToken(p) ==
  BailOut(p, "kInvalidExpressionSyntax", <<"Unexpected token", p.tok.sp>>,
          p.tok.loc)

\* Parser::ParsePrimaryExpression
ParsePrimaryExpression ==
  /\ Running("ParsePrimaryExpression")
  /\ CASE At("start") ->
            IF Is(P, "numeric_constant")
              THEN Return(ParseNumericLiteral(P).p, ParseNumericLiteral(P).v)
            ELSE IF IsOneOf(P, {"kw_true", "kw_false"})
              THEN Return(ParseBooleanLiteral(P).p, ParseBooleanLiteral(P).v)
            ELSE IF Is(P, "kw_nullptr")
              THEN Return(ParsePointerLiteral(P).p, ParsePointerLiteral(P).v)
            ELSE IF IsOneOf(P, {"coloncolon", "identifier"})
              THEN Call(P, [fn |-> "ParsePrimaryExpression",
                            pc |-> "identifier", loc |-> token_.loc],
                        Frame("ParseIdExpression"))
            ELSE IF Is(P, "kw_this")
              THEN IdentifierValue(
                     ConsumeToken(P), "this", token_.loc,
                     <<"invalid use of 'this' outside of a non-static member function">>,
                     TRUE)
            ELSE IF Is(P, "l_paren")
              THEN Call(ConsumeToken(P),
                        [fn |-> "ParsePrimaryExpression", pc |-> "expr"],
                        Frame("ParseExpression"))
            ELSE Return(UnexpectedToken(P), ErrorNode)
       [] At("identifier") ->
            IdentifierValue(P, ret, Top.loc,
                            <<"use of undeclared identifier", ret>>, FALSE)
       [] At("expr") ->
            Return(ConsumeToken(Expect(P, "r_paren")), ret)

-----------------------------------------------------------------------------
(* Types and names.                                                        *)

\* Parser::ParseTypeId
ParseTypeId ==
  /\ Running("ParseTypeId")
  /\ IF At("start")
       THEN Call(P, [fn |-> "ParseTypeId", pc |-> "type_specifier_seq"],
                 [fn |-> "ParseTypeSpecifierSeq", pc |-> "start",
                  type_decl |-> EmptyTypeDeclaration])
       ELSE Return(PtrOperatorLoop(P, ret).p, PtrOperatorLoop(P, ret).v)

\* Parser::ParseTypeSpecifierSeq; the value returned is *type_decl
ParseTypeSpecifierSeq ==
  /\ Running("ParseTypeSpecifierSeq")
  /\ IF At("start")
       THEN Call(P, [fn |-> "ParseTypeSpecifierSeq", pc |-> "type_specifier"],
                 [fn |-> "ParseTypeSpecifier", pc |-> "start",
                  type_decl |-> Top.type_decl])
       ELSE IF ~ret.type_specifier
              THEN Return(P, ret.type_decl)
              ELSE Call(P, [fn |-> "ParseTypeSpecifierSeq",
                            pc |-> "type_specifier"],
                        [fn |-> "ParseTypeSpecifier", pc |-> "start",
                         type_decl |-> ret.type_decl])

\* A cv qualifier that is accepted and left in place.
IgnoreCvQualifierInPlace(p) == p

\* Parser::ParseTypeSpecifier: if (IsCvQualifier(token_)) ConsumeToken()
IgnoreCvQualifier(p) == ConsumeToken(p)

\* Parser::ParseTypeSpecifier; the value returned is the flag with *type_decl.
\* The frame remembers in entry the lexer position at the call (history only).
ParseTypeSpecifier ==
  /\ Running("ParseTypeSpecifier")
  /\ CASE At("start") ->
            IF IsCvQualifier(P)
              THEN Return(IgnoreCvQualifier(P),
                          [type_specifier |-> TRUE,
                           type_decl |-> Top.type_decl])
            ELSE IF IsSimpleTypeSpecifierKeyword(P)
              THEN Return(ConsumeToken(P),
                          [type_specifier |-> TRUE,
                           type_decl |->
                             [Top.type_decl EXCEPT
                                !.typenames_ = Append(@, getSpelling(P))]])
            ELSE Call(IF Is(P, "coloncolon") THEN ConsumeToken(P) ELSE P,
                      [fn |-> "ParseTypeSpecifier",
                       pc |-> "nested_name_specifier",
                       global_scope |-> Is(P, "coloncolon"),
                       type_decl |-> Top.type_decl,
                       entry |-> pos],
                      Frame("ParseNestedNameSpecifier"))
       [] At("nested_name_specifier") ->
            Call(P, [fn |-> "ParseTypeSpecifier", pc |-> "type_name",
                     global_scope |-> Top.global_scope,
                     nested_name_specifier |-> ret,
                     type_decl |-> Top.type_decl,
                     entry |-> Top.entry],
                 Frame("ParseTypeName"))
       [] At("type_name") ->
            IF ret # ""
              THEN Return(P,
                     [type_specifier |-> TRUE,
                      type_decl |->
                        [Top.type_decl EXCEPT
                           !.typenames_ =
                             Append(@, (IF Top.global_scope THEN "::" ELSE "")
                                         \o Top.nested_name_specifier
                                         \o ret)]])
              ELSE Return(P, [type_specifier |-> FALSE,
                              type_decl |-> Top.type_decl])

\* A failed attempt that leaves without resolving its snapshot.
NotANestedNameSpecifierLeaves(p) == p

\* Parser::ParseNestedNameSpecifier: not a nested_name_specifier,
\* tentative_parsing.Rollback()
NotANestedNameSpecifier(p) == Rollback(p, "nested_name_specifier")

\* Parser::ParseNestedNameSpecifier
ParseNestedNameSpecifier ==
  /\ Running("ParseNestedNameSpecifier")
  /\ CASE At("start") ->
            IF ~Is(P, "identifier")
              THEN Return(P, "")
            ELSE IF LookAhead0(P).kind = "coloncolon"
              THEN Call(ConsumeToken(Expect(ConsumeToken(P), "coloncolon")),
                        [fn |-> "ParseNestedNameSpecifier", pc |-> "rest",
                         prefix |-> getSpelling(P) \o "::"],
                        Frame("ParseNestedNameSpecifier"))
            ELSE IF LookAhead0(P).kind = "less"
              THEN Call(Tentative(P, "nested_name_specifier"),
                        [fn |-> "ParseNestedNameSpecifier",
                         pc |-> "type_name"],
                        Frame("ParseTypeName"))
            ELSE Return(P, "")
       [] At("type_name") ->
            IF ret # "" /\ Is(P, "coloncolon")
              THEN Call(ConsumeToken(Commit(P, "nested_name_specifier")),
                        [fn |-> "ParseNestedNameSpecifier", pc |-> "rest",
                         prefix |-> ret \o "::"],
                        Frame("ParseNestedNameSpecifier"))
              ELSE Return(NotANestedNameSpecifier(P), "")
       [] At("rest") ->
            Return(P, Top.prefix \o ret)

\* Parser::ParseTypeName
ParseTypeName ==
  /\ Running("ParseTypeName")
  /\ IF At("start")
       THEN IF ~Is(P, "identifier")
              THEN Return(P, "")
            ELSE IF LookAhead0(P).kind = "less"
              THEN IF Is(ConsumeToken(ConsumeToken(P)), "greater")
                     THEN Return(ConsumeToken(ConsumeToken(ConsumeToken(P))),
                                 getSpelling(P) \o "<>")
                     ELSE Call(ConsumeToken(ConsumeToken(P)),
                               [fn |-> "ParseTypeName",
                                pc |-> "template_argument_list",
                                template_name |-> getSpelling(P)],
                               Frame("ParseTemplateArgumentList"))
            ELSE Return(ConsumeToken(P), getSpelling(P))
       ELSE IF Is(P, "greater")
              THEN Return(ConsumeToken(P),
                          Top.template_name \o "<" \o ret \o ">")
              ELSE Return(P, "")

\* A template argument list rendered without the extra space.
TemplateArgumentsTextJoined(arguments) == Join(arguments, ", ")

\* Parser::ParseTemplateArgumentList: the text of the parsed arguments
TemplateArgumentsText(arguments) ==
  LET n == Len(arguments)
      back == arguments[n]
  IN  Join(IF SubSeq(back, Len(back), Len(back)) = ">"
             THEN [arguments EXCEPT ![n] = back \o " "]
             ELSE arguments,
           ", ")

\* Parser::ParseTemplateArgumentList
ParseTemplateArgumentList ==
  /\ Running("ParseTemplateArgumentList")
  /\ IF At("start")
       THEN Call(P, [fn |-> "ParseTemplateArgumentList", pc |-> "argument",
                     arguments |-> <<>>],
                 Frame("ParseTemplateArgument"))
       ELSE IF ret = ""
              THEN Return(P, "")
            ELSE IF Is(P, "comma")
              THEN Call(ConsumeToken(P),
                        [fn |-> "ParseTemplateArgumentList",
                         pc |-> "argument",
                         arguments |-> Append(Top.arguments, ret)],
                        Frame("ParseTemplateArgument"))
            ELSE Return(P, TemplateArgumentsText(Append(Top.arguments, ret)))

\* A template argument that any token may follow.
FinishesTemplateArgumentAlways(p) == TRUE

\* Parser::ParseTemplateArgument: token_.isOneOf(comma, greater)
FinishesTemplateArgument(p) == IsOneOf(p, {"comma", "greater"})

\* Parser::ParseTemplateArgument
ParseTemplateArgument ==
  /\ Running("ParseTemplateArgument")
  /\ CASE At("start") ->
            Call(Tentative(P, "template_argument type_id"),
                 [fn |-> "ParseTemplateArgument", pc |-> "type_decl"],
                 Frame("ParseTypeId"))
       [] At("type_decl") ->
            LET type_decl == ret
                type == ResolveTypeFromTypeDecl(P, type_decl)
            IN  IF IsValid(type_decl) /\ type.v.valid
                   /\ FinishesTemplateArgument(type.p)
                  THEN Return(Commit(type.p, "template_argument type_id"),
                              GetName(type_decl))
                  ELSE Call(Tentative(Rollback(type.p,
                                               "template_argument type_id"),
                                      "template_argument id_expression"),
                            [fn |-> "ParseTemplateArgument",
                             pc |-> "id_expression"],
                            Frame("ParseIdExpression"))
       [] At("id_expression") ->
            IF ret # "" /\ FinishesTemplateArgument(P)
              THEN Return(Commit(P, "template_argument id_expression"), ret)
              ELSE Return(Rollback(P, "template_argument id_expression"), "")

\* Parser::ParseIdExpression
ParseIdExpression ==
  /\ Running("ParseIdExpression")
  /\ IF At("start")
       THEN Call(IF Is(P, "coloncolon") THEN ConsumeToken(P) ELSE P,
                 [fn |-> "ParseIdExpression", pc |-> "nested_name_specifier",
                  global_scope |-> Is(P, "coloncolon")],
                 Frame("ParseNestedNameSpecifier"))
       ELSE IF ret # ""
              THEN Return(ParseUnqualifiedId(P).p,
                          (IF Top.global_scope THEN "::" ELSE "")
                            \o ret \o ParseUnqualifiedId(P).v)
            ELSE IF Top.global_scope
              THEN Return(ConsumeToken(Expect(P, "identifier")),
                          "::" \o getSpelling(Expect(P, "identifier")))
            ELSE Return(ParseUnqualifiedId(P).p, ParseUnqualifiedId(P).v)

-----------------------------------------------------------------------------
(* Parser::Run.                                                            *)

\* A Run that returns the parsed node whatever the error slot holds.
RunResultKeepsExpr(err, e) == e

\* Parser::Run: the node returned
RunResult(err, e) == IF IsSet(err) THEN ErrorNode ELSE e

\* Parser::Run
Run ==
  IF status = "constructed"
    THEN /\ steps < MaxSteps
         /\ steps' = steps + 1
         /\ token_' = ConsumeToken(P).tok
         /\ pos' = ConsumeToken(P).pos
         /\ stack' = <<[fn |-> "Run", pc |-> "expr"],
                       Frame("ParseExpression")>>
         /\ status' = "running"
         /\ UNCHANGED <<tokens, types, values, marks, error_, ret, expr,
                        error, log, target, int_literal, picked, call, result>>
    ELSE /\ Running("Run")
         /\ steps < MaxSteps
         /\ steps' = steps + 1
         /\ LET p2 == Expect(P, "eof")
            IN  /\ error' = p2.err
                /\ error_' = NoError
                /\ expr' = RunResult(p2.err, ret)
                /\ token_' = p2.tok
                /\ log' = p2.log
         /\ stack' = Callers
         /\ status' = "returned"
         /\ UNCHANGED <<tokens, types, values, pos, marks, ret, target,
                        int_literal, picked, call, result>>

-----------------------------------------------------------------------------
(* The state machine.                                                      *)

SeqsUpTo(S, n) == UNION {[1..k -> S] : k \in 0..n}

\* The names the expression context resolves: T is a type, a is a value.
KnownTypes == {"int", "T", "T<T>", "T<T, T>"}
KnownValues == {"a", "this", "::a", "T::a", "T<T>::a"}
\* The values of a context that is not inside a member function.
ValuesOutsideMember == KnownValues \ {"this"}

a_ == Ident("a")
T_ == Ident("T")

\* The tokens of the general specification.
Alphabet ==
  {L_PAREN, R_PAREN, a_, T_, LESS, GREATER, COLONCOLON, PLUSPLUS}

\* Expressions every specification parses.
Corpus ==
  { <<L_PAREN, a_, R_PAREN>>,
    <<L_PAREN, T_, LESS, T_, GREATER, COLONCOLON, a_, R_PAREN>>,
    <<L_PAREN, T_, R_PAREN, a_, PLUS, Num("1")>>,
    <<L_PAREN, T_, R_PAREN, L_PAREN, a_, R_PAREN>>,
    <<L_PAREN, T_, R_PAREN>>,
    <<L_PAREN, T_, a_>>,
    <<L_PAREN, a_, LESS, Num("1"), R_PAREN>>,
    <<a_, LESS, a_, GREATER, COLONCOLON, a_>>,
    <<T_, LESS, T_, COMMA, T_, LESS, T_, GREATER, GREATER, COLONCOLON, a_>>,
    <<Num("1"), PLUS, Num("2"), STAR, Num("3")>>,
    <<Num("1"), LESSLESS>>,
    <<Num("1"), Num("2")>>,
    <<a_, COMMA, a_>>,
    <<a_, EQUAL, a_>>,
    <<a_, PLUSPLUS>>,
    <<a_, MINUSMINUS>>,
    <<PLUSPLUS, a_>>,
    <<MINUSMINUS, L_PAREN, T_, R_PAREN, a_>>,
    <<a_, L_SQUARE, Num("1"), R_SQUARE, PLUSPLUS>>,
    <<a_, L_SQUARE, Num("1")>>,
    <<KW_THIS>>,
    <<KW_THIS, Tok("arrow", "->"), a_>>,
    <<a_, PERIOD, a_, PLUSPLUS>>,
    <<L_PAREN, T_, STAR, AMP, R_PAREN, a_>>,
    <<L_PAREN, T_, AMP, STAR, R_PAREN, a_>>,
    <<L_PAREN, T_, AMP, AMP, R_PAREN, a_>>,
    <<L_PAREN, Tok("kw_const", "const"), KW_INT, STAR,
      Tok("kw_const", "const"), R_PAREN, Num("1")>>,
    <<Tok("kw_true", "true")>>,
    <<Tok("kw_nullptr", "nullptr")>>,
    <<Num("1.5")>>,
    <<Num("1e999")>>,
    <<Num("1u")>>,
    <<Num("1z")>>,
    <<a_, QUESTION, a_, COLON, Num("1")>>,
    <<a_, QUESTION, a_>>,
    <<Ident("b")>>,
    <<COLONCOLON, Num("1")>>,
    <<a_, COLONCOLON>>,
    <<T_, LESS, a_, GREATER, COLONCOLON, a_>>,
    <<T_, LESS, T_, GREATER, COLONCOLON, a_>>,
    <<a_, GREATER, Num("1"), LESS>>,
    <<L_PAREN, KW_INT, COLONCOLON, R_PAREN, a_>>,
    <<L_PAREN, KW_INT, a_, LESS, Num("1"), R_PAREN>>,
    <<L_PAREN, KW_INT, R_PAREN, a_>>,
    <<L_PAREN, Ident("ns"), COLONCOLON, Ident("Outer"), LESS, T_, GREATER,
      COLONCOLON, Ident("Inner"), Ident("x"), R_PAREN>>,
    <<L_PAREN, Ident("ns"), COLONCOLON, Ident("Outer"), LESS, T_, GREATER,
      COLONCOLON, Ident("Inner"), R_PAREN>>,
    <<T_, LESS, KW_INT, GREATER, COLONCOLON, a_>>,
    <<T_, LESS, T_, STAR, a_, GREATER, COLONCOLON, a_>>,
    <<T_, LESS, T_, STAR, COMMA, a_, GREATER, COLONCOLON, a_>>,
    <<T_, LESS, Num("1"), GREATER, COLONCOLON, a_>>,
    <<L_PAREN, T_, LESS, T_, LESS, T_, GREATER, GREATER, R_PAREN, a_>>,
    <<T_, LESS, T_, LESS, GREATER, GREATER, COLONCOLON, a_>>,
    <<Num("0xFFFFFFFF")>>,
    <<Num("4294967295")>>,
    <<Num("1l")>>,
    <<Num("18446744073709551616")>> }

\* No literal is handed to PickIntegerType alone.
NoLiteral == [hadError |-> TRUE]

\* The state after Parser::Parser on the text tks in the context (ts, vs),
\* in a build of widths t.
ConstructedFor(tks, ts, vs, t) ==
  /\ tokens = tks
  /\ types = ts
  /\ values = vs
  /\ status = "constructed"
  /\ token_ = InitialParser.tok
  /\ pos = InitialParser.pos
  /\ marks = InitialParser.marks
  /\ error_ = InitialParser.err
  /\ log = InitialParser.log
  /\ stack = <<>>
  /\ ret = <<>>
  /\ expr = <<>>
  /\ error = NoError
  /\ target = t
  /\ int_literal = NoLiteral
  /\ picked = ""
  /\ call = NoCall
  /\ result = <<>>
  /\ steps = 0

\* The state after Parser::Parser on the text tks in the context (ts, vs).
Constructed(tks, ts, vs) == ConstructedFor(tks, ts, vs, LP64)

\* The parser is constructed on one of the texts of family.
ConstructedOn(family) ==
  \/ \E tks \in family \cup Corpus :
       Constructed(tks, KnownTypes, KnownValues)
  \/ \E tks \in Corpus :
       Constructed(tks, KnownTypes, ValuesOutsideMember)
  \/ \E tks \in Corpus :
       ConstructedFor(tks, KnownTypes, KnownValues, ILP32)

Init == ConstructedOn(SeqsUpTo(Alphabet, MaxLen))

Next ==
  \/ Run
  \/ ParseExpression
  \/ ParseAssignmentExpression
  \/ ParseConditionalExpression
  \/ ParseLogicalOrExpression
  \/ ParseLogicalAndExpression
  \/ ParseInclusiveOrExpression
  \/ ParseExclusiveOrExpression
  \/ ParseAndExpression
  \/ ParseEqualityExpression
  \/ ParseRelationalExpression
  \/ ParseShiftExpression
  \/ ParseAdditiveExpression
  \/ ParseMultiplicativeExpression
  \/ ParseCastExpression
  \/ ParseUnaryExpression
  \/ ParsePostfixExpression
  \/ ParsePrimaryExpression
  \/ ParseTypeId
  \/ ParseTypeSpecifierSeq
  \/ ParseTypeSpecifier
  \/ ParseNestedNameSpecifier
  \/ ParseTypeName
  \/ ParseTemplateArgumentList
  \/ ParseTemplateArgument
  \/ ParseIdExpression

Spec == Init /\ [][Next]_vars

\* Operands joined by binary operators: operand {operator operand}, with at
\* most n operators.
RECURSIVE Joined(_, _, _)
Joined(operands, operators, n) ==
  IF n = 0
    THEN operands
    ELSE LET shorter == Joined(operands, operators, n - 1)
         IN  shorter \cup {x \o <<op>> \o y :
                             x \in shorter, op \in operators, y \in operands}

\* The texts of the operator-ladder specification.
LadderOperands == {<<a_>>, <<COLONCOLON, a_>>, <<Num("1")>>}
LadderOperators == {PIPEPIPE, AMP, LESS, GREATER, PLUS, STAR}
InitLadder == ConstructedOn(Joined(LadderOperands, LadderOperators, MaxOps))
SpecLadder == InitLadder /\ [][Next]_vars

\* The texts of the conditional specification.
ConditionalOperands == {<<a_>>, <<Num("1")>>}
ConditionalSeparators == {QUESTION, COLON, PIPEPIPE}
InitConditional ==
  ConstructedOn(Joined(ConditionalOperands, ConditionalSeparators, MaxSeps))
SpecConditional == InitConditional /\ [][Next]_vars

\* The texts of the type-name specification: casts "(" specifiers ")" a.
TypeSpecifiers ==
  {KW_SHORT, KW_LONG, KW_INT, KW_UNSIGNED, Ident("belong"),
   Ident("interval")}
Casts(specifiers, n) ==
  {<<L_PAREN>> \o t \o <<R_PAREN, a_>> :
     t \in SeqsUpTo(specifiers, n) \ {<<>>}}
InitTypeName == ConstructedOn(Casts(TypeSpecifiers, MaxTypenames))
SpecTypeName == InitTypeName /\ [][Next]_vars

\* The texts of the postfix specification: a followed by at most n steps,
\* each a member access, a subscript, or the beginning of one.
PostfixSteps ==
  { <<PERIOD, a_>>, <<ARROW, a_>>, <<PERIOD, T_, COLONCOLON, a_>>,
    <<L_SQUARE, a_, R_SQUARE>>, <<PERIOD>>, <<ARROW>>, <<L_SQUARE, a_>> }
RECURSIVE Chains(_, _)
Chains(postfixes, n) ==
  IF n = 0 THEN {<<a_>>}
  ELSE Chains(postfixes, n - 1)
         \cup {x \o step : x \in Chains(postfixes, n - 1),
                            step \in postfixes}
InitPostfix == ConstructedOn(Chains(PostfixSteps, MaxPostfix))
SpecPostfix == InitPostfix /\ [][Next]_vars

\* PickIntegerType alone: the literals ParseIntegerLiteral can hand to it, by
\* suffix, radix and number of significant bits of the value.
Radixes == {2, 8, 10, 16}
Suffixes ==
  {x \in [isUnsigned : BOOLEAN, isLong : BOOLEAN, isLongLong : BOOLEAN] :
     ~(x.isLong /\ x.isLongLong)}
IntegerLiterals ==
  {IntegerLiteral("", bits, radix, x.isUnsigned, x.isLong, x.isLongLong) :
     bits \in 0..uintmax_width, radix \in Radixes, x \in Suffixes}

InitLiteral ==
  /\ tokens = <<>>
  /\ types = {}
  /\ values = {}
  /\ status = "literal"
  /\ token_ = InitialParser.tok
  /\ pos = InitialParser.pos
  /\ marks = InitialParser.marks
  /\ error_ = InitialParser.err
  /\ log = InitialParser.log
  /\ stack = <<>>
  /\ ret = <<>>
  /\ expr = <<>>
  /\ error = NoError
  /\ target \in Targets
  /\ int_literal \in IntegerLiterals
  /\ picked = ""
  /\ call = NoCall
  /\ result = <<>>
  /\ steps = 0

\* lldb::BasicType type = PickIntegerType(literal, raw_value)
CallPickIntegerType ==
  /\ status = "literal"
  /\ picked' = PickIntegerType(int_literal, int_literal.value)
  /\ status' = "picked"
  /\ UNCHANGED <<tokens, types, values, token_, pos, marks, error_, stack,
                 ret, expr, error, log, target, int_literal, call, result,
                 steps>>

NextLiteral == CallPickIntegerType
SpecLiteral == InitLiteral /\ [][NextLiteral]_vars

-----------------------------------------------------------------------------
(* The diagnostics renderer, on the text of the buffer.  Offsets into a    *)
(* string start at 0, as in the code.                                      *)

\* llvm::StringRef::npos
npos == -1

\* The character of str at offset i.
CharAt(str, i) == SubSeq(str, i + 1, i + 1)

\* llvm::StringRef::rfind(C, From): the last offset before From where C is.
rfind(str, C, From) ==
  LET upto == IF From < Len(str) THEN From ELSE Len(str)
      hits == {i \in 0..(upto - 1) : CharAt(str, i) = C}
  IN  IF hits = {} THEN npos ELSE CHOOSE i \in hits : \A j \in hits : j <= i

\* llvm::StringRef::find(C, From): the first offset from From on where C is.
find(str, C, From) ==
  LET hits == {i \in From..(Len(str) - 1) : CharAt(str, i) = C}
  IN  IF hits = {} THEN npos ELSE CHOOSE i \in hits : \A j \in hits : i <= j

\* llvm::StringRef::slice(Start, End)
slice(str, Start, End) == SubSeq(str, Start + 1, End)

RECURSIVE Spaces(_)
Spaces(n) == IF n <= 0 THEN "" ELSE " " \o Spaces(n - 1)

\* llvm::fmt_pad(item, left, right)
fmt_pad(item, left, right) == Spaces(left) \o item \o Spaces(right)

\* clang::SourceManager::getPresumedLineNumber: one more than the number
\* of line breaks before the location.
getPresumedLineNumber(text, loc_offset) ==
  1 + Cardinality({i \in 0..(loc_offset - 1) : CharAt(text, i) = "\n"})

\* clang::SourceManager::getPresumedColumnNumber: one more than the number
\* of characters between the start of the line and the location.
getPresumedColumnNumber(text, loc_offset) ==
  LET before == {i \in 0..(loc_offset - 1) : CharAt(text, i) = "\n"}
      start == IF before = {} THEN 0
               ELSE 1 + CHOOSE i \in before : \A j \in before : j <= i
  IN  loc_offset - start + 1

\* clang::SourceLocation::printToString: file:line:col
printToString(file, text, loc_offset) ==
  file \o ":" \o ToString(getPresumedLineNumber(text, loc_offset))
       \o ":" \o ToString(getPresumedColumnNumber(text, loc_offset))

\* A source line that is never padded.
expr_rpad_none(arrow, size) == 0

\* FormatDiagnostics: expr_rpad = std::max(0, arrow - line.size())
expr_rpad(arrow, size) == IF arrow - size > 0 THEN arrow - size ELSE 0

\* FormatDiagnostics: arrow_rpad = std::max(0, line.size() - arrow)
arrow_rpad(arrow, size) == IF size - arrow > 0 THEN size - arrow ELSE 0

\* FormatDiagnostics, on the text of the buffer named file and the offset
\* of the location in it.
FormatDiagnosticsText(file, text, message, loc_offset) ==
  LET found_start == rfind(text, "\n", loc_offset)
      line_start == IF found_start = npos THEN 0 ELSE found_start + 1
      found_end == find(text, "\n", loc_offset)
      line_end == IF found_end = npos THEN Len(text) ELSE found_end
      line == slice(text, line_start, line_end)
      arrow == getPresumedColumnNumber(text, loc_offset)
  IN  printToString(file, text, loc_offset) \o ": " \o message \o "\n"
        \o fmt_pad(line, 0, expr_rpad(arrow, Len(line))) \o "\n"
        \o fmt_pad("^", arrow - 1, arrow_rpad(arrow, Len(line)))

\* The texts of at most n characters.
Characters == {"a", " ", "\n"}
RECURSIVE Texts(_)
Texts(n) ==
  IF n = 0 THEN {""}
  ELSE Texts(n - 1) \cup {t \o c : t \in Texts(n - 1), c \in Characters}

Messages == {"expected 'eof'", "m"}
Files == {"<expr>"}

\* The state of every variable of the parser when a function is called
\* alone.
NoParse ==
  /\ tokens = <<>>
  /\ types = {}
  /\ values = {}
  /\ token_ = InitialParser.tok
  /\ pos = InitialParser.pos
  /\ marks = InitialParser.marks
  /\ error_ = InitialParser.err
  /\ log = InitialParser.log
  /\ stack = <<>>
  /\ ret = <<>>
  /\ expr = <<>>
  /\ error = NoError
  /\ target = LP64
  /\ int_literal = NoLiteral
  /\ picked = ""
  /\ steps = 0

\* The locations of a text: the offset of any character, or its end (the
\* location of end-of-input).
InitDiagnostics ==
  /\ NoParse
  /\ status = "called"
  /\ \E text \in Texts(MaxText), message \in Messages, file \in Files :
       \E loc_offset \in 0..Len(text) :
         call = [fn |-> "FormatDiagnostics", file |-> file, text |-> text,
                 message |-> message, loc_offset |-> loc_offset]
  /\ result = <<>>

\* error_.Set(code, FormatDiagnostics(ctx_->GetSourceManager(), error, loc))
CallFormatDiagnostics ==
  /\ status = "called"
  /\ call.fn = "FormatDiagnostics"
  /\ result' = FormatDiagnosticsText(call.file, call.text, call.message,
                                     call.loc_offset)
  /\ status' = "answered"
  /\ UNCHANGED <<tokens, types, values, token_, pos, marks, error_, stack,
                 ret, expr, error, log, target, int_literal, picked, call,
                 steps>>

NextDiagnostics == CallFormatDiagnostics
SpecDiagnostics == InitDiagnostics /\ [][NextDiagnostics]_vars

-----------------------------------------------------------------------------
(* The fuzzer's type constraints (constraints.h).                          *)

\* class NoType, class AnyType: the alternatives of the variants
NoType == [alternative |-> "NoType"]
AnyType == [alternative |-> "AnyType"]

\* std::variant<NoType, AnyType, SpecificTypes> holding a SpecificTypes
Specific(constraints) ==
  [alternative |-> "SpecificTypes", value |-> constraints]

holds_alternative(alternative, variant) == variant.alternative = alternative

\* A few scalar types and tagged types.
ScalarTypes == {"Void", "SignedInt"}
TaggedTypes == {"struct S", "enum E"}

\* SpecificTypes: its four members.  ptr_types_ is NoType, AnyType or the
\* constraints of the pointee.
SpecificTypesWith(ptr_types) ==
  [scalar_types_ : SUBSET ScalarTypes,
   tagged_types_ : SUBSET TaggedTypes,
   ptr_types_ : ptr_types,
   allows_void_pointer_ : BOOLEAN]

\* SpecificTypes(): no scalar, no tagged type, no pointer
DefaultSpecificTypes ==
  [scalar_types_ |-> {}, tagged_types_ |-> {}, ptr_types_ |-> NoType,
   allows_void_pointer_ |-> FALSE]

\* The SpecificTypes values: pointers to nothing, to anything, or to the
\* types of one tagged type.
AllSpecificTypes ==
  SpecificTypesWith(
    {NoType, AnyType,
     Specific([DefaultSpecificTypes EXCEPT !.tagged_types_ = {"struct S"}])})

\* SpecificTypes::satisfiable
SpecificTypes_satisfiable(this) ==
  \/ this.scalar_types_ # {}
  \/ this.tagged_types_ # {}
  \/ ~holds_alternative("NoType", this.ptr_types_)
  \/ this.allows_void_pointer_

\* SpecificTypes::allowed_tagged_types
SpecificTypes_allowed_tagged_types(this) == this.tagged_types_

\* TypeConstraints::TypeConstraints(NoType), (AnyType), (SpecificTypes):
\* constraints_ holds NoType unless the constructor assigns it.
TypeConstraints(argument) ==
  [constraints_ |->
     IF argument = NoType THEN NoType
     ELSE IF argument = AnyType THEN AnyType
     ELSE IF SpecificTypes_satisfiable(argument.value) THEN argument
     ELSE NoType]

\* TypeConstraints::satisfiable
satisfiable(this) == ~holds_alternative("NoType", this.constraints_)

\* TypeConstraints::allows_any
allows_any(this) == holds_alternative("AnyType", this.constraints_)

\* A pointer: null, or to a value.
nullptr == [null |-> TRUE]
AddressOf(value) == [null |-> FALSE, pointee |-> value]

\* TypeConstraints::as_specific_types: std::get_if<SpecificTypes>
as_specific_types(this) ==
  IF holds_alternative("SpecificTypes", this.constraints_)
    THEN AddressOf(this.constraints_.value)
    ELSE nullptr

\* TypeConstraints::allows_tagged_types
allows_tagged_types(this) ==
  IF ~satisfiable(this) THEN FALSE
  ELSE IF allows_any(this) THEN TRUE
  ELSE LET specific_types == as_specific_types(this)
       IN  SpecificTypes_allowed_tagged_types(specific_types.pointee) # {}

\* TypeConstraints::allowed_tagged_types
allowed_tagged_types(this) ==
  LET specific_types == as_specific_types(this)
  IN  IF specific_types = nullptr THEN nullptr
      ELSE AddressOf(SpecificTypes_allowed_tagged_types(
                       specific_types.pointee))

\* A TypeConstraints is constructed from NoType, AnyType or a SpecificTypes.
InitConstraints ==
  /\ NoParse
  /\ status = "called"
  /\ \E argument \in {NoType, AnyType}
                       \cup {Specific(c) : c \in AllSpecificTypes} :
       call = [fn |-> "TypeConstraints", argument |-> argument]
  /\ result = <<>>

\* TypeConstraints::TypeConstraints
ConstructTypeConstraints ==
  /\ status = "called"
  /\ call.fn = "TypeConstraints"
  /\ result' = [this |-> TypeConstraints(call.argument)]
  /\ status' = "built"
  /\ UNCHANGED <<tokens, types, values, token_, pos, marks, error_, stack,
                 ret, expr, error, log, target, int_literal, picked, call,
                 steps>>

\* The constructed value is asked allowed_tagged_types() and
\* allows_tagged_types().
AskTaggedTypes ==
  /\ status = "built"
  /\ call.fn = "TypeConstraints"
  /\ result' = [this |-> result.this,
                allowed_tagged_types |-> allowed_tagged_types(result.this),
                allows_tagged_types |-> allows_tagged_types(result.this)]
  /\ status' = "answered"
  /\ UNCHANGED <<tokens, types, values, token_, pos, marks, error_, stack,
                 ret, expr, error, log, target, int_literal, picked, call,
                 steps>>

NextConstraints == ConstructTypeConstraints \/ AskTaggedTypes
SpecConstraints == InitConstraints /\ [][NextConstraints]_vars

-----------------------------------------------------------------------------
(* The history of a parse.                                                 *)

Last(s) == s[Len(s)]

IsAcquire(e) == e[1] = "acquire"
IsCommit(e) == e[1] = "commit"
IsRollback(e) == e[1] = "rollback"
IsBail(e) == e[1] = "bail"
IsLookup(e) == e[1] = "lookup"

\* The events a step adds to the history.
NewEvents == (Len(log) + 1)..Len(log')

Opened(l, i, j) == Cardinality({k \in i..j : IsAcquire(l[k])})
Closed(l, i, j) == Cardinality({k \in i..j : IsCommit(l[k]) \/ IsRollback(l[k])})

\* Event i of l takes the snapshot that event j of l commits or rolls back.
Matches(l, i, j) ==
  /\ i < j
  /\ IsAcquire(l[i])
  /\ Opened(l, i + 1, j - 1) = Closed(l, i + 1, j - 1)
  /\ \A k \in (i + 1)..(j - 1) :
       IsAcquire(l[k]) => Opened(l, k + 1, j - 1) # Closed(l, k + 1, j - 1)

MatchingAcquire(l, j) == l[CHOOSE i \in 1..(j - 1) : Matches(l, i, j)]

Returned == status = "returned"

Spellings == [i \in 1..Len(tokens) |-> tokens[i].sp]

\* The position of end-of-input.
EofLoc == Len(tokens) + 1

-----------------------------------------------------------------------------
(* C1 *)

\* C1: Run reports an error if and only if the root node it returns is the
\* Error sentinel: a non-empty error comes with an ErrorNode root, an empty
\* error with a root that is not an ErrorNode, also when an error raised
\* during the parse was cleared by a rollback.
C1_ErrorIffErrorNode ==
  Returned => (IsSet(error) <=> expr = ErrorNode)

\* A parse that returns a tree and no error although a rollback discarded an
\* error on the way.
C1_Witness ==
  /\ Returned
  /\ ~IsSet(error)
  /\ expr # ErrorNode
  /\ \E j \in 1..Len(log) : IsRollback(log[j]) /\ log[j][5] # "kOk"

-----------------------------------------------------------------------------
(* C2 *)

\* The cast attempt of ParseCastExpression is being rejected.
CastRejected ==
  /\ Running("ParseCastExpression")
  /\ At("type_decl")
  /\ ~ResolveTypeFromTypeDecl(P, ret).v.valid

\* "(" name ")" for a name that is a value and no type.
ParenthesisedValue ==
  /\ Len(tokens) = 3
  /\ tokens[1] = L_PAREN
  /\ tokens[2].kind = "identifier"
  /\ tokens[3] = R_PAREN
  /\ tokens[2].sp \in values \ types

\* C2: when the cast attempt after "(" is rejected, the rollback restores the
\* token position exactly: ParseUnaryExpression starts with the "(" as the
\* current token, at the position and with the open snapshots the attempt
\* started from and no error, also when snapshots were committed inside the
\* attempt; and "(" foo ")" with foo a value and no type yields
\* Identifier(foo) without error.
C2_CastRollbackRestoresPosition ==
  [][ /\ CastRejected =>
           LET acquired == MatchingAcquire(log', Len(log'))
           IN  /\ IsRollback(Last(log')) /\ Last(log')[2] = "cast"
               /\ acquired[2] = "cast"
               /\ token_' = TokenAt(acquired[3])
               /\ token_'.kind = "l_paren"
               /\ pos' = acquired[4]
               /\ pos' = token_'.loc + 1
               /\ marks' = SubSeq(marks, 1, Len(marks) - 1)
               /\ error_' = NoError
               /\ stack' = Callers \o <<Frame("ParseUnaryExpression")>>
      /\ (Returned' /\ ParenthesisedValue) =>
           /\ expr' = IdentifierNode(tokens[2].sp, FALSE)
           /\ ~IsSet(error')
    ]_vars

\* A rejected cast attempt inside which a snapshot was committed, and the
\* parenthesised expression was then parsed as a value.
C2_Witness ==
  /\ Returned
  /\ ~IsSet(error)
  /\ expr[1] = "Identifier"
  /\ \E i, j, k \in 1..Len(log) :
       /\ i < k /\ k < j
       /\ IsRollback(log[j]) /\ log[j][2] = "cast"
       /\ Matches(log, i, j)
       /\ IsCommit(log[k])

-----------------------------------------------------------------------------
(* C3 *)

\* The cast attempt of ParseCastExpression is being accepted.
CastAccepted ==
  /\ Running("ParseCastExpression")
  /\ At("type_decl")
  /\ ResolveTypeFromTypeDecl(P, ret).v.valid

\* The number of CStyleCast nodes of a tree.
RECURSIVE CastNodes(_)
CastNodes(node) ==
  CASE node[1] = "CStyleCast" -> 1 + CastNodes(node[3])
    [] node[1] = "Unary" -> CastNodes(node[3])
    [] node[1] = "Binary" -> CastNodes(node[3]) + CastNodes(node[4])
    [] node[1] = "Ternary" ->
         CastNodes(node[2]) + CastNodes(node[3]) + CastNodes(node[4])
    [] node[1] = "MemberOf" -> CastNodes(node[3])
    [] OTHER -> 0

CommittedCasts ==
  Cardinality({j \in 1..Len(log) : IsCommit(log[j]) /\ log[j][2] = "cast"})

\* "(" T ")" a "+" 1
CastThenPlus ==
  tokens = <<L_PAREN, T_, R_PAREN, a_, PLUS, Num("1")>>

\* C3: when "(" is followed by a type_id whose base name resolves, the
\* parser commits to the cast: the snapshot is committed and either the
\* declarators are rejected with an error, or ")" is required and the
\* operand is parsed as a cast_expression whose value is wrapped in
\* CStyleCast; the parenthesised-expression reading is never taken after the
\* commit, so a parse without error has one CStyleCast node per committed
\* cast.  The operand binds tighter than a binary operator: "(T)a + 1" is
\* Binary(+, CStyleCast(T, a), 1).
C3_ResolvedTypeCommitsToCast ==
  [][ /\ CastAccepted =>
           /\ marks' = SubSeq(marks, 1, Len(marks) - 1)
           /\ \/ /\ stack' = Callers
                 /\ ret' = ErrorNode
                 /\ IsSet(error_')
              \/ /\ Len(stack') = Len(stack) + 1
                 /\ stack'[Len(stack)].fn = "ParseCastExpression"
                 /\ stack'[Len(stack)].pc = "rhs"
                 /\ Last(stack') = Frame("ParseCastExpression")
                 /\ IF token_.kind = "r_paren"
                      THEN token_' = TokenAt(pos) /\ error_' = error_
                      ELSE IsSet(error_')
      /\ (Running("ParseCastExpression") /\ At("rhs")) =>
           /\ stack' = Callers
           /\ ret' = CStyleCastNode(Top.type, ret)
      /\ (Returned' /\ ~IsSet(error')) => CastNodes(expr') = CommittedCasts'
      /\ (Returned' /\ CastThenPlus) =>
           expr' = BinaryOpNode("plus",
                     CStyleCastNode([valid |-> TRUE, name |-> "T",
                                     ops |-> <<>>],
                                    IdentifierNode("a", FALSE)),
                     LiteralNode("int", "1"))
    ]_vars

\* "(T)a + 1" has been parsed into a sum whose left operand is the cast.
C3_Witness ==
  /\ Returned
  /\ CastThenPlus
  /\ expr[1] = "Binary"
  /\ expr[3][1] = "CStyleCast"
  /\ CommittedCasts = 1

-----------------------------------------------------------------------------
(* C4 *)

Min(S) == CHOOSE x \in S : \A y \in S : x <= y
Max(S) == CHOOSE x \in S : \A y \in S : y <= x

\* The last rollback of history l that discarded an error (0: none did).
LastDiscard(l) ==
  Max({0} \cup {j \in 1..Len(l) : IsRollback(l[j]) /\ l[j][5] # "kOk"})

\* The calls of BailOut after event r of history l.
BailsAfter(l, r) == {k \in (r + 1)..Len(l) : IsBail(l[k])}

\* C4: first error wins.  A step that rolls nothing back leaves a stored
\* error (code and rendered message) as it is, up to its hand-over to Run's
\* caller; and the error Run returns is the one of the earliest BailOut call
\* that no rollback discarded: that call stored it and every later call
\* stored nothing.
C4_FirstErrorWins ==
  [][ /\ (IsSet(error_) /\ \A j \in NewEvents : ~IsRollback(log'[j])) =>
           \/ error_' = error_
           \/ Returned' /\ error' = error_
      /\ Returned' =>
           LET bails == BailsAfter(log', LastDiscard(log'))
           IN  IF bails = {}
                 THEN ~IsSet(error')
                 ELSE LET first == log'[Min(bails)]
                      IN  /\ first[4]
                          /\ error'.code = first[2]
                          /\ error'.message[2] = first[3]
                          /\ \A k \in bails \ {Min(bails)} : ~log'[k][4]
    ]_vars

\* A parse in which BailOut was called again, with another code, after an
\* error was stored, and Run returned the first.
C4_Witness ==
  /\ Returned
  /\ \E k, m \in 1..Len(log) :
       /\ k < m
       /\ IsBail(log[k]) /\ log[k][4]
       /\ IsBail(log[m]) /\ ~log[m][4]
       /\ log[m][2] # log[k][2]
       /\ error.code = log[k][2]

-----------------------------------------------------------------------------
(* C5 *)

\* "(" a "<" 1 ")"
ParenthesisedLess ==
  tokens = <<L_PAREN, a_, LESS, Num("1"), R_PAREN>>

\* C5: an error raised by BailOut inside a speculative path that is rolled
\* back is discarded: the snapshot was taken without error, and after the
\* rollback the error slot is empty, the current token is the token at which
\* the snapshot was taken (with its own kind, not the forced end-of-input)
\* and the position is the one of the snapshot.  "(a < 1)" with a a value,
\* whose template-argument attempt bails on 1, parses to a < 1 without error.
C5_RollbackDiscardsError ==
  [][ /\ \A j \in NewEvents :
           (IsRollback(log'[j]) /\ log'[j][5] # "kOk") =>
             LET acquired == MatchingAcquire(log', j)
             IN  /\ acquired[5] = "kOk"
                 /\ acquired[2] = log'[j][2]
                 /\ IsSet(error_)
                 /\ error_' = NoError
                 /\ token_' = TokenAt(acquired[3])
                 /\ pos' = acquired[4]
      /\ (Returned' /\ ParenthesisedLess) =>
           /\ expr' = BinaryOpNode("less", IdentifierNode("a", FALSE),
                                   LiteralNode("int", "1"))
           /\ ~IsSet(error')
    ]_vars

\* "(a < 1)" has been parsed without error after a rollback discarded the
\* kUnknown raised on 1.
C5_Witness ==
  /\ Returned
  /\ ParenthesisedLess
  /\ ~IsSet(error)
  /\ \E j \in 1..Len(log) : IsRollback(log[j]) /\ log[j][5] = "kUnknown"

-----------------------------------------------------------------------------
(* C6 *)

\* The levels of the binary operators, lowest precedence first.
LadderOps ==
  << {"pipepipe"},
     {"ampamp"},
     {"pipe"},
     {"caret"},
     {"amp"},
     {"equalequal", "exclaimequal"},
     {"less", "greater", "lessequal", "greaterequal"},
     {"lessless", "greatergreater"},
     {"plus", "minus"},
     {"star", "slash", "percent"} >>

IsLadderOp(i) == \E l \in 1..Len(LadderOps) : tokens[i].kind \in LadderOps[l]
Level(i) == CHOOSE l \in 1..Len(LadderOps) : tokens[i].kind \in LadderOps[l]

\* The operators of tokens lo..hi.
OpsIn(lo, hi) == {i \in lo..hi : IsLadderOp(i)}

\* Tokens lo..hi are an operand every context resolves: a, ::a or 1.
IsOperand(lo, hi) ==
  \/ lo = hi /\ tokens[lo] \in {a_, Num("1")}
  \/ hi = lo + 1 /\ tokens[lo] = COLONCOLON /\ tokens[hi] = a_

OperandNode(lo, hi) ==
  IF tokens[hi] = a_
    THEN IdentifierNode(IF lo = hi THEN "a" ELSE "::a", FALSE)
    ELSE LiteralNode("int", "1")

\* The text is operand {operator operand}.
IsLadderText ==
  /\ Len(tokens) > 0
  /\ LET ops == OpsIn(1, Len(tokens))
         bounds == {0, Len(tokens) + 1} \cup ops
     IN  \A i \in bounds :
           i <= Len(tokens) =>
             LET next == Min({j \in bounds : j > i})
             IN  i + 1 <= next - 1 /\ IsOperand(i + 1, next - 1)

\* The tree of the grammar for tokens lo..hi of a ladder text: the root is
\* the last operator of the lowest level.
RECURSIVE PrecedenceTree(_, _)
PrecedenceTree(lo, hi) ==
  LET ops == OpsIn(lo, hi)
  IN  IF ops = {}
        THEN OperandNode(lo, hi)
        ELSE LET lowest == Min({Level(i) : i \in ops})
                 root == Max({i \in ops : Level(i) = lowest})
             IN  BinaryOpNode(tokens[root].kind,
                              PrecedenceTree(lo, root - 1),
                              PrecedenceTree(root + 1, hi))

\* C6: for every expression made of operands and binary operators of the
\* ladder, the AST is the precedence tree: operators of one level group to
\* the left, an operator of a higher level binds tighter, also when the
\* operands are identifiers next to "<", ">" and "::".
C6_LadderIsPrecedenceTree ==
  (Returned /\ IsLadderText) =>
    /\ ~IsSet(error)
    /\ expr = PrecedenceTree(1, Len(tokens))

-----------------------------------------------------------------------------
(* C7 *)

\* The text is operand {separator operand} with separators "?", ":", "||".
IsConditionalText ==
  /\ Len(tokens) % 2 = 1
  /\ \A i \in 1..Len(tokens) :
       IF i % 2 = 1
         THEN tokens[i] \in {a_, Num("1")}
         ELSE tokens[i] \in {QUESTION, COLON, PIPEPIPE}

\* The logical_or_expression trees of tokens lo..hi (at most one).
RECURSIVE LogicalOrTrees(_, _)
LogicalOrTrees(lo, hi) ==
  IF lo = hi
    THEN {OperandNode(lo, hi)}
    ELSE IF tokens[hi - 1] = PIPEPIPE
           THEN {BinaryOpNode("pipepipe", lhs, OperandNode(hi, hi)) :
                   lhs \in LogicalOrTrees(lo, hi - 2)}
           ELSE {}

\* The conditional_expression trees of tokens lo..hi by the grammar
\*   conditional_expression:
\*     logical_or_expression
\*     logical_or_expression "?" expression ":" assignment_expression
RECURSIVE ConditionalTrees(_, _)
ConditionalTrees(lo, hi) ==
  LogicalOrTrees(lo, hi) \cup
  UNION { UNION { {TernaryOpNode(cond, true_val, false_val) :
                     cond \in LogicalOrTrees(lo, q - 1),
                     true_val \in ConditionalTrees(q + 1, c - 1),
                     false_val \in ConditionalTrees(c + 1, hi)} :
                  c \in {c \in (q + 2)..(hi - 1) : tokens[c] = COLON} } :
          q \in {q \in (lo + 1)..(hi - 1) : tokens[q] = QUESTION} }

A == IdentifierNode("a", FALSE)
One == LiteralNode("int", "1")

\* a ? 1 : a ? 1 : a
NestedElse ==
  tokens = <<a_, QUESTION, Num("1"), COLON, a_, QUESTION, Num("1"), COLON,
             a_>>

\* a || 1 ? a : 1
LogicalOrCondition ==
  tokens = <<a_, PIPEPIPE, Num("1"), QUESTION, a_, COLON, Num("1")>>

\* C7: a text of operands separated by "?", ":" and "||" parses to the tree
\* the grammar of conditional_expression gives it, and fails when the
\* grammar gives none.  So the else arm nests to the right
\* ("a ? 1 : a ? 1 : a" is Ternary(a, 1, Ternary(a, 1, a))), the condition
\* is a logical_or_expression ("a || 1 ? a : 1" is Ternary(a || 1, a, 1)),
\* and a "?" whose then arm is not followed by ":" makes the parse fail.
C7_ConditionalIsGrammarTree ==
  (Returned /\ IsConditionalText) =>
    /\ IF ConditionalTrees(1, Len(tokens)) = {}
         THEN IsSet(error) /\ expr = ErrorNode
         ELSE ~IsSet(error) /\ ConditionalTrees(1, Len(tokens)) = {expr}
    /\ NestedElse =>
         expr = TernaryOpNode(A, One, TernaryOpNode(A, One, A))
    /\ LogicalOrCondition =>
         expr = TernaryOpNode(BinaryOpNode("pipepipe", A, One), A, One)
    /\ (\E q \in 1..Len(tokens) :
          /\ tokens[q] = QUESTION
          /\ \A c \in (q + 1)..Len(tokens) : tokens[c] # COLON)
         => IsSet(error)

\* "a ? 1 : a ? 1 : a" has been parsed into a conditional whose else arm is
\* a conditional.
C7_Witness ==
  /\ Returned
  /\ NestedElse
  /\ expr[1] = "Ternary"
  /\ expr[4][1] = "Ternary"

-----------------------------------------------------------------------------
(* C8 *)

\* The location of the error Run reports.
ErrorLoc == error.message[2]

\* The text stops after a binary operator: "1 <<", "a <", "a > 1 <".
TruncatedAfterOperator ==
  /\ Len(tokens) \in {2, 4}
  /\ \A i \in 1..Len(tokens) :
       IF i % 2 = 1
         THEN tokens[i] \in {a_, Num("1")}
         ELSE \E l \in 1..Len(LadderOps) : tokens[i].kind \in LadderOps[l]

\* The text is a cast to a known type with no operand: "(T)".
CastWithoutOperand == tokens = <<L_PAREN, T_, R_PAREN>>

\* ParsePrimaryExpression is about to run at the end of the text with no
\* error recorded.
PrimaryAtEndOfInput ==
  /\ Running("ParsePrimaryExpression")
  /\ At("start")
  /\ token_.kind = "eof"
  /\ ~IsSet(error_)

\* C8 as stated: when an operand is missing where an expression is required
\* (the text stops after a binary operator, or nothing follows the ")" of a
\* committed cast), the parse fails with code kUnknown at the end-of-input
\* position.
C8_MissingOperandIsUnknown ==
  (Returned /\ (TruncatedAfterOperator \/ CastWithoutOperand)) =>
    /\ error.code = "kUnknown"
    /\ ErrorLoc = EofLoc

\* C8, amended: when an operand is missing where an expression is required,
\* the parse fails with code kInvalidExpressionSyntax ("Unexpected token")
\* at the end-of-input position, and the root is the Error sentinel: the
\* primary expression reached at the end of the text records that error,
\* and it is the error Run reports for a text that stops after a binary
\* operator and for a committed cast with nothing after its ")".
C8_MissingOperandIsInvalidSyntax ==
  [][/\ PrimaryAtEndOfInput =>
          /\ error_'.code = "kInvalidExpressionSyntax"
          /\ error_'.message[2] = EofLoc
          /\ ret' = ErrorNode
     /\ (Returned' /\ (TruncatedAfterOperator \/ CastWithoutOperand)) =>
          /\ error'.code = "kInvalidExpressionSyntax"
          /\ error'.message[2] = EofLoc
          /\ expr' = ErrorNode]_vars

\* "1 <<" has been parsed: the error is at the end of the text.
C8_Witness ==
  /\ Returned
  /\ tokens = <<Num("1"), LESSLESS>>
  /\ IsSet(error)
  /\ ErrorLoc = 3

-----------------------------------------------------------------------------
(* C9 *)

\* Texts that are a primary or postfix expression in every context.
PostfixOperands ==
  { <<a_>>, <<Num("1")>>, <<L_PAREN, a_, R_PAREN>>,
    <<a_, L_SQUARE, Num("1"), R_SQUARE>>, <<a_, PERIOD, a_>> }

\* The text starts with a primary or postfix expression followed at once by
\* "++" or "--".
PostfixIncDecText ==
  \E x \in PostfixOperands :
    /\ Len(tokens) > Len(x)
    /\ SubSeq(tokens, 1, Len(x)) = x
    /\ tokens[Len(x) + 1] \in {PLUSPLUS, MINUSMINUS}

\* ParseUnaryExpression is about to run on a prefix "++" or "--".
PrefixIncDec ==
  /\ Running("ParseUnaryExpression")
  /\ At("start")
  /\ token_.kind \in {"plusplus", "minusminus"}

\* C9: a text in which a parsed primary or postfix expression is followed
\* at once by "++" or "--" fails with code kNotImplemented and the Error
\* sentinel, whatever follows; a prefix "++" or "--" is accepted: its
\* operand is parsed as a cast_expression and the result is a Unary node
\* ("++ a" is Unary(++, a), "-- (T) a" is Unary(--, CStyleCast(T, a))).
C9_PostfixIncDecNotImplemented ==
  [][/\ (Returned' /\ PostfixIncDecText) =>
          /\ error'.code = "kNotImplemented"
          /\ expr' = ErrorNode
     /\ PrefixIncDec =>
          /\ Len(stack') = Len(stack) + 1
          /\ Last(stack').fn = "ParseCastExpression"
          /\ stack'[Len(stack)].kind = token_.kind
     /\ (Running("ParseUnaryExpression") /\ ~At("start")) =>
          ret' = UnaryOpNode(Top.kind, ret)
     /\ (Returned' /\ tokens = <<PLUSPLUS, a_>>) =>
          /\ ~IsSet(error')
          /\ expr' = UnaryOpNode("plusplus", IdentifierNode("a", FALSE))
     /\ (Returned' /\ tokens = <<MINUSMINUS, L_PAREN, T_, R_PAREN, a_>>) =>
          /\ ~IsSet(error')
          /\ expr'[1] = "Unary"
          /\ expr'[3][1] = "CStyleCast"]_vars

\* "( a ) ++" has been parsed and rejected at the "++".
C9_Witness ==
  /\ Returned
  /\ tokens = <<L_PAREN, a_, R_PAREN, PLUSPLUS>>
  /\ error.code = "kNotImplemented"
  /\ ErrorLoc = 4

-----------------------------------------------------------------------------
(* C10 *)

\* Texts that are one id_expression, with the name each one spells.
IdExpressions ==
  { <<<<a_>>, "a">>,
    <<<<Ident("b")>>, "b">>,
    <<<<T_>>, "T">>,
    <<<<COLONCOLON, a_>>, "::a">>,
    <<<<T_, COLONCOLON, a_>>, "T::a">>,
    <<<<a_, COLONCOLON, a_>>, "a::a">>,
    <<<<COLONCOLON, T_, COLONCOLON, a_>>, "::T::a">>,
    <<<<T_, LESS, T_, GREATER, COLONCOLON, a_>>, "T<T>::a">>,
    <<<<T_, LESS, a_, GREATER, COLONCOLON, a_>>, "T<a>::a">>,
    <<<<T_, LESS, T_, COMMA, T_, LESS, T_, GREATER, GREATER, COLONCOLON,
        a_>>, "T<T, T<T> >::a">> }

\* The lookups of the history l.
Lookups(l) == {i \in 1..Len(l) : IsLookup(l[i])}

\* C10: the name of a primary id_expression is looked up as assembled from
\* all its parts; when the context has no binding for it the parse fails
\* with kUndeclaredIdentifier and yields the Error sentinel, when it has one
\* the node is an Identifier flagged as lvalue.  "this" looks up the binding
\* named "this" and yields an Identifier flagged as rvalue, or fails with
\* kUndeclaredIdentifier when there is no such binding.
C10_IdentifierIsLookedUp ==
  [][/\ \A i \in NewEvents :
          IsLookup(log'[i]) =>
            IF log'[i][3]
              THEN ret' = IdentifierNode(log'[i][2], log'[i][2] = "this")
              ELSE ret' = ErrorNode /\ IsSet(error_')
     /\ (Running("ParsePrimaryExpression") /\ At("start")
           /\ token_.kind = "kw_this" /\ ~IsSet(error_)) =>
          /\ \E i \in NewEvents :
               log'[i] = <<"lookup", "this", "this" \in values>>
          /\ ~("this" \in values) =>
               error_'.code = "kUndeclaredIdentifier"
     /\ \A t \in IdExpressions :
          (Returned' /\ tokens = t[1]) =>
            /\ \E i \in Lookups(log') :
                 log'[i] = <<"lookup", t[2], t[2] \in values>>
            /\ IF t[2] \in values
                 THEN ~IsSet(error') /\ expr' = IdentifierNode(t[2], FALSE)
                 ELSE /\ error'.code = "kUndeclaredIdentifier"
                      /\ expr' = ErrorNode]_vars

\* "T<T>::a" has been parsed into an lvalue Identifier of that name.
C10_Witness ==
  /\ Returned
  /\ tokens = <<T_, LESS, T_, GREATER, COLONCOLON, a_>>
  /\ expr = IdentifierNode("T<T>::a", FALSE)

-----------------------------------------------------------------------------
(* C11 *)

\* ParseTypeSpecifier is about to return false: the user-defined form was
\* attempted and the required type_name is empty.
TypeSpecifierFails ==
  /\ Running("ParseTypeSpecifier")
  /\ At("type_name")
  /\ ret = ""

\* ( int :: ) a
CastWithStrayScope == tokens = <<L_PAREN, KW_INT, COLONCOLON, R_PAREN, a_>>

\* C11: a failed attempt at the user-defined form of a type_specifier
\* consumes no token: when ParseTypeSpecifier returns false the lexer
\* position is the one it was called at, so no token is dropped between the
\* accepted type specifiers and the ")" of a cast: "( int :: ) a" is
\* rejected, not parsed as a cast of a to int.
C11_FailedTypeSpecifierConsumesNothing ==
  [][/\ TypeSpecifierFails => pos' = Top.entry
     /\ (Returned' /\ CastWithStrayScope) =>
          IsSet(error') /\ expr' = ErrorNode]_vars

-----------------------------------------------------------------------------
(* C12 *)

IsResolve(e) == e[1] = "resolve"

\* The base names the history l shows passed to the type lookup.
ResolvedNames(l) == {l[i][2] : i \in {i \in 1..Len(l) : IsResolve(l[i])}}

\* ( ns :: Outer < T > :: Inner x )
QualifiedTypeThenIdentifier ==
  tokens = <<L_PAREN, Ident("ns"), COLONCOLON, Ident("Outer"), LESS, T_,
             GREATER, COLONCOLON, Ident("Inner"), Ident("x"), R_PAREN>>

\* C12: for "ns::Outer<T>::Inner x" in a type_id context the base name
\* passed to the type lookup is exactly "ns::Outer<T>::Inner": the template
\* argument T is looked up, then the qualified name assembled from its
\* segments and template arguments, and the identifier x that follows is not
\* part of the base name.
C12_QualifiedBaseName ==
  (Returned /\ QualifiedTypeThenIdentifier) =>
    ResolvedNames(log) = {"T", "ns::Outer<T>::Inner"}

-----------------------------------------------------------------------------
(* C13 *)

\* ParseTemplateArgument has the type_id of its first attempt, or the
\* id_expression of its second one.
TypeIdAttempted == Running("ParseTemplateArgument") /\ At("type_decl")
IdExpressionAttempted ==
  Running("ParseTemplateArgument") /\ At("id_expression")

\* The current token can finish a template argument.
AtCommaOrGreater == token_.kind \in {"comma", "greater"}

\* The snapshot that the last event of the history l finalizes.
LastAcquired(l) == MatchingAcquire(l, Len(l))

\* The parser is back at the token and position of the snapshot acquired,
\* with no error.
RestoredTo(acquired) ==
  /\ token_' = TokenAt(acquired[3])
  /\ pos' = acquired[4]
  /\ error_' = NoError

\* C13: a template argument is resolved in favour of type_id: when the
\* tokens are a type_id whose base name resolves and "," or ">" follows, the
\* argument is the rendered type name and the type_id snapshot is committed,
\* whether or not the tokens are an id_expression too; otherwise the
\* position is restored to the first token of the argument and id_expression
\* is tried from there, accepted under the same follow set; when neither
\* succeeds the argument is empty, the position is the first token of the
\* argument and no error is recorded.
C13_TemplateArgumentPrefersTypeId ==
  [][/\ TypeIdAttempted =>
          IF /\ Len(ret.typenames_) > 0
             /\ GetBaseName(ret) \in types
             /\ AtCommaOrGreater
            THEN /\ ret' = GetName(ret)
                 /\ Last(log') = <<"commit", "template_argument type_id",
                                   "kOk">>
                 /\ LastAcquired(log')[2] = "template_argument type_id"
                 /\ stack' = Callers
                 /\ pos' = pos /\ token_' = token_
            ELSE LET rollback == log'[Len(log') - 1]
                     first == MatchingAcquire(log', Len(log') - 1)
                 IN  /\ IsRollback(rollback)
                     /\ rollback[2] = "template_argument type_id"
                     /\ first[2] = "template_argument type_id"
                     /\ RestoredTo(first)
                     /\ Last(log') = <<"acquire",
                                       "template_argument id_expression",
                                       first[3], first[4], "kOk">>
                     /\ stack' = Callers \o
                          <<[fn |-> "ParseTemplateArgument",
                             pc |-> "id_expression"],
                            Frame("ParseIdExpression")>>
     /\ IdExpressionAttempted =>
          /\ stack' = Callers
          /\ LastAcquired(log')[2] = "template_argument id_expression"
          /\ IF ret # "" /\ AtCommaOrGreater
               THEN /\ ret' = ret
                    /\ IsCommit(Last(log'))
                    /\ pos' = pos /\ token_' = token_
               ELSE /\ ret' = ""
                    /\ IsRollback(Last(log'))
                    /\ RestoredTo(LastAcquired(log'))]_vars

\* "T < T * , a > :: a" has been parsed: the first argument was committed as
\* a type_id, the second as an id_expression, and the name looked up has
\* both.
C13_Witness ==
  /\ Returned
  /\ tokens = <<T_, LESS, T_, STAR, COMMA, a_, GREATER, COLONCOLON, a_>>
  /\ \E i, j \in 1..Len(log) :
       /\ i < j
       /\ log[i] = <<"commit", "template_argument type_id", "kOk">>
       /\ log[j] = <<"commit", "template_argument id_expression", "kOk">>
  /\ \E i \in 1..Len(log) : log[i] = <<"lookup", "T<T *, a>::a", FALSE>>

-----------------------------------------------------------------------------
(* C14 *)

Picked == status = "picked"

SignedTypes == {"int", "long", "long long"}
UnsignedTypes == {"unsigned int", "unsigned long", "unsigned long long"}

\* The width of a type in the build.
Width(type) ==
  CASE type \in {"int", "unsigned int"} -> target.int_size
    [] type \in {"long", "unsigned long"} -> target.long_size
    [] type \in {"long long", "unsigned long long"} -> target.long_long_size

\* The number of significant bits of the value of the int_literal.
Bits == int_literal.value.bits

\* The value of the literal is in the range of the type.
InRange(type) ==
  IF type \in SignedTypes THEN Bits <= Width(type) - 1
  ELSE Bits <= Width(type)

\* C14: PickIntegerType never returns a signed type for a literal with a u
\* suffix, and for a literal without u suffix in radix 2, 8 or 16 it returns
\* the unsigned type of a width only when the value does not fit the signed
\* type of that width.
C14_UnsignedOnlyWhenNeeded ==
  Picked =>
    /\ int_literal.isUnsigned => picked \in UnsignedTypes
    /\ (~int_literal.isUnsigned /\ int_literal.radix # 10 /\ picked \in UnsignedTypes)
         => Bits > Width(picked) - 1

\* A hexadecimal literal without suffix whose value has int's width in bits
\* was typed unsigned int.
C14_Witness ==
  /\ Picked
  /\ int_literal.radix = 16
  /\ ~int_literal.isUnsigned /\ ~int_literal.isLong /\ ~int_literal.isLongLong
  /\ Bits = target.int_size
  /\ picked = "unsigned int"

-----------------------------------------------------------------------------
(* C15 *)

\* The text is the literal 0xFFFFFFFF, or 4294967295.
HexLiteral == tokens = <<Num("0xFFFFFFFF")>>
DecimalLiteral == tokens = <<Num("4294967295")>>

\* C15 as stated: with a 32-bit int, 0xFFFFFFFF is typed unsigned int, and
\* 4294967295 without suffix is typed long when long is 64 bits wide and
\* unsigned long when long is 32 bits wide.
C15_DecimalBecomesUnsignedLong ==
  (Returned /\ target.int_size = 32) =>
    /\ HexLiteral => expr = LiteralNode("unsigned int", "4294967295")
    /\ DecimalLiteral =>
         expr = LiteralNode(IF target.long_size = 64 THEN "long"
                            ELSE "unsigned long",
                            "4294967295")

\* C15, amended: with a 32-bit int, 0xFFFFFFFF is typed unsigned int, and
\* 4294967295 without suffix is typed long when long is 64 bits wide and
\* long long when long is 32 bits wide: a decimal literal without u suffix
\* is never given an unsigned type that a wider signed type can avoid.
C15_DecimalStaysSigned ==
  (Returned /\ target.int_size = 32) =>
    /\ HexLiteral =>
         ~IsSet(error) /\ expr = LiteralNode("unsigned int", "4294967295")
    /\ DecimalLiteral =>
         /\ ~IsSet(error)
         /\ expr = LiteralNode(IF target.long_size = 64 THEN "long"
                               ELSE "long long",
                               "4294967295")

\* 4294967295 has been typed long long in a build whose long has 32 bits.
C15_Witness ==
  /\ Returned
  /\ DecimalLiteral
  /\ target.long_size = 32
  /\ expr = LiteralNode("long long", "4294967295")

-----------------------------------------------------------------------------
(* C16 *)

\* The order in which PickIntegerType is to consider the types.
TypeOrder ==
  <<"int", "unsigned int", "long", "unsigned long", "long long",
    "unsigned long long">>

\* The rank of a type, and the rank the suffix of the literal demands.
Rank(type) ==
  CASE type \in {"int", "unsigned int"} -> 0
    [] type \in {"long", "unsigned long"} -> 1
    [] type \in {"long long", "unsigned long long"} -> 2

DemandedRank ==
  IF int_literal.isLongLong THEN 2 ELSE IF int_literal.isLong THEN 1 ELSE 0

\* The signedness rule: a signed type needs a literal without u suffix, an
\* unsigned type a u suffix or a radix other than 10.
Permitted(type) ==
  IF type \in SignedTypes
    THEN ~int_literal.isUnsigned
    ELSE int_literal.isUnsigned \/ int_literal.radix # 10

\* The places of TypeOrder whose type the literal may get.
Candidates ==
  {i \in 1..Len(TypeOrder) :
     /\ Rank(TypeOrder[i]) >= DemandedRank
     /\ Permitted(TypeOrder[i])
     /\ InRange(TypeOrder[i])}

\* C16: for a literal whose value fits the widest integer width,
\* PickIntegerType returns the first type of the order int, unsigned int,
\* long, unsigned long, long long, unsigned long long that is not below the
\* rank of the suffix, is permitted by the signedness rule and whose range
\* contains the value; the range of the type returned contains the value;
\* when no permitted type contains it, the result is unsigned long long.
C16_FirstTypeThatFits ==
  (Picked /\ Bits <= target.long_long_size) =>
    /\ picked = IF Candidates = {} THEN "unsigned long long"
                ELSE TypeOrder[Min(Candidates)]
    /\ InRange(picked)
    /\ Candidates = {} =>
         /\ int_literal.radix = 10
         /\ ~int_literal.isUnsigned
         /\ Bits > target.long_long_size - 1

\* A decimal literal without u suffix too large for long long got unsigned
\* long long although no permitted type contains it.
C16_Witness ==
  /\ Picked
  /\ Candidates = {}
  /\ picked = "unsigned long long"
  /\ Bits = target.long_long_size

-----------------------------------------------------------------------------
(* C17 *)

\* The text is a cast "(" specifiers ")" a; its specifiers.
IsTypeNameText ==
  /\ Len(tokens) >= 4
  /\ tokens[1] = L_PAREN
  /\ tokens[Len(tokens) - 1] = R_PAREN
  /\ tokens[Len(tokens)] = a_
  /\ \A i \in 2..(Len(tokens) - 2) : tokens[i] \in TypeSpecifiers

TypeNameTokens == SubSeq(Spellings, 2, Len(tokens) - 2)

\* The typename tokens in which the adjacent whole tokens "short int" are
\* rewritten to "short" and "long int" to "long".
RECURSIVE WholeTokenRewrite(_)
WholeTokenRewrite(names) ==
  IF Len(names) < 2
    THEN names
    ELSE IF names[1] \in {"short", "long"} /\ names[2] = "int"
           THEN <<names[1]>> \o WholeTokenRewrite(SubSeq(names, 3, Len(names)))
           ELSE <<names[1]>> \o WholeTokenRewrite(Tail(names))

\* ( belong int ) a
UserTypeThenInt == tokens = <<L_PAREN, Ident("belong"), KW_INT, R_PAREN, a_>>

\* C17: the base name rendered for a sequence of typename tokens, the name
\* passed to the type lookup, is the tokens joined by single spaces with the
\* adjacent whole tokens "short int" rewritten to "short" and "long int" to
\* "long" and every other token unchanged: no part of a user-defined type
\* name is rewritten ("belong int" stays "belong int").
C17_WholeTokenCanonicalization ==
  (Returned /\ IsTypeNameText) =>
    /\ ResolvedNames(log) = {Join(WholeTokenRewrite(TypeNameTokens), " ")}
    /\ UserTypeThenInt => ResolvedNames(log) = {"belong int"}

-----------------------------------------------------------------------------
(* C18 *)

\* The last character of the non-empty string str.
Back(str) == SubSeq(str, Len(str), Len(str))

\* The names the history l shows passed to the resolver: type lookups and
\* identifier lookups.
NamesPassed(l) ==
  {l[i][2] : i \in {i \in 1..Len(l) : IsResolve(l[i]) \/ IsLookup(l[i])}}

\* ParseTemplateArgumentList is about to return the list of its arguments.
TemplateArgumentListEnds ==
  /\ Running("ParseTemplateArgumentList")
  /\ At("argument")
  /\ ret # ""
  /\ token_.kind # "comma"

\* C18: when the last argument of a template argument list ends in ">", the
\* rendered list ends in that ">" and one space, so that the closing ">" of
\* the enclosing template is not adjacent to it ("T<T<T> >"); and no name
\* the parser passes to the resolver has two adjacent ">".
C18_NoAdjacentGreater ==
  [][/\ TemplateArgumentListEnds =>
          LET arguments == Append(Top.arguments, ret)
          IN  IF Back(ret) = ">"
                THEN /\ ret' = Join(arguments, ", ") \o " "
                     /\ SubSeq(ret', Len(ret') - 2, Len(ret')) # ">> "
                ELSE ret' = Join(arguments, ", ")
     /\ \A name \in NamesPassed(log') : Find(name, ">>") = 0]_vars

\* "( T < T < T > > ) a" has been parsed: the type looked up is "T<T<T> >".
C18_Witness ==
  /\ Returned
  /\ tokens = <<L_PAREN, T_, LESS, T_, LESS, T_, GREATER, GREATER, R_PAREN,
                a_>>
  /\ "T<T<T> >" \in ResolvedNames(log)

-----------------------------------------------------------------------------
(* C19 *)

\* ParseCastExpression has a type_decl whose base name resolves: the cast
\* is committed and the declarators are applied.
CastCommitted ==
  /\ Running("ParseCastExpression")
  /\ At("type_decl")
  /\ Len(ret.typenames_) > 0
  /\ GetBaseName(ret) \in types

\* Some declarator of ops is applied to a reference: it follows a "&".
AppliedToReference(ops) == \E i \in 1..(Len(ops) - 1) : ops[i] = "amp"

\* The type named base with the declarators ops applied left to right.
Declared(base, ops) == [valid |-> TRUE, name |-> base, ops |-> ops]

\* C19: in a committed cast the declarators are applied to the resolved
\* base type left to right.  When a "*" or a "&" is applied to a type that
\* is already a reference the parse fails with kInvalidOperandType and no
\* CStyleCast node is produced; otherwise every "*" gives the pointer type
\* and every "&" the reference type of the type built so far, and that is
\* the type of the CStyleCast node.
C19_DeclaratorsLeftToRight ==
  [][/\ CastCommitted =>
          IF AppliedToReference(ret.ptr_operators_)
            THEN /\ error_'.code = "kInvalidOperandType"
                 /\ ret' = ErrorNode
                 /\ stack' = Callers
            ELSE /\ Len(stack') = Len(stack) + 1
                 /\ stack'[Len(stack)].pc = "rhs"
                 /\ stack'[Len(stack)].type =
                      Declared(GetBaseName(ret), ret.ptr_operators_)
     /\ (Running("ParseCastExpression") /\ At("rhs")) =>
          ret' = CStyleCastNode(Top.type, ret)
     /\ (Returned' /\ tokens = <<L_PAREN, T_, STAR, AMP, R_PAREN, a_>>) =>
          /\ ~IsSet(error')
          /\ expr' = CStyleCastNode(Declared("T", <<"star", "amp">>),
                                    IdentifierNode("a", FALSE))
     /\ (Returned' /\ tokens \in {<<L_PAREN, T_, AMP, STAR, R_PAREN, a_>>,
                                  <<L_PAREN, T_, AMP, AMP, R_PAREN, a_>>}) =>
          /\ error'.code = "kInvalidOperandType"
          /\ expr' = ErrorNode]_vars

\* "( T & * ) a" has been rejected: pointer to a reference.
C19_Witness ==
  /\ Returned
  /\ tokens = <<L_PAREN, T_, AMP, STAR, R_PAREN, a_>>
  /\ error.code = "kInvalidOperandType"
  /\ \E i \in 1..Len(log) : log[i] = <<"commit", "cast", "kOk">>

-----------------------------------------------------------------------------
(* C20 *)

\* The snapshot an activation holds: the one it has taken and not yet
\* committed or rolled back ("" when it holds none).
Held(frame) ==
  CASE frame.fn = "ParseCastExpression" /\ frame.pc = "type_decl" -> "cast"
    [] frame.fn = "ParseNestedNameSpecifier" /\ frame.pc = "type_name" ->
         "nested_name_specifier"
    [] frame.fn = "ParseTemplateArgument" /\ frame.pc = "type_decl" ->
         "template_argument type_id"
    [] frame.fn = "ParseTemplateArgument" /\ frame.pc = "id_expression" ->
         "template_argument id_expression"
    [] OTHER -> ""

\* The snapshots held by the activations of s, outermost first.
RECURSIVE HeldBy(_)
HeldBy(s) ==
  IF s = <<>> THEN <<>>
  ELSE IF Held(s[1]) = "" THEN HeldBy(Tail(s))
  ELSE <<Held(s[1])>> \o HeldBy(Tail(s))

\* The event e resolves a snapshot.
IsResolution(e) == IsCommit(e) \/ IsRollback(e)

\* Event i of l takes a snapshot that no later event of l resolves.
IsOpen(l, i) ==
  /\ IsAcquire(l[i])
  /\ \A j \in (i + 1)..Len(l) : ~(IsResolution(l[j]) /\ Matches(l, i, j))

\* The snapshots of l that are taken and not resolved, oldest first.
RECURSIVE OpenAfter(_, _)
OpenAfter(l, i) ==
  IF i > Len(l) THEN <<>>
  ELSE IF IsOpen(l, i) THEN <<l[i][2]>> \o OpenAfter(l, i + 1)
  ELSE OpenAfter(l, i + 1)

OpenSnapshots(l) == OpenAfter(l, 1)

\* C20: every tentative snapshot is resolved exactly once before the
\* activation that took it ends.  The snapshots taken and not yet resolved
\* are at every moment exactly those held by the live activations of
\* ParseCastExpression, ParseNestedNameSpecifier and ParseTemplateArgument
\* (either attempt), in the order of the call stack, and the preprocessor
\* keeps one backtrack position for each; each Commit or Rollback resolves
\* the most recently taken unresolved snapshot, which is the one of the
\* routine calling it, so no snapshot is resolved twice and inner snapshots
\* are resolved before outer ones; when the parse returns none is open.
C20_SnapshotsResolvedExactlyOnce ==
  [][/\ OpenSnapshots(log') = HeldBy(stack')
     /\ Len(marks') = Len(OpenSnapshots(log'))
     /\ \A j \in NewEvents :
          IsResolution(log'[j]) =>
            /\ \E i \in 1..(j - 1) : Matches(log', i, j)
            /\ MatchingAcquire(log', j)[2] = log'[j][2]
            /\ log'[j][2] = Held(Top)
            /\ OpenSnapshots(SubSeq(log', 1, j)) = HeldBy(Callers)
     /\ Returned' => OpenSnapshots(log') = <<>> /\ marks' = <<>>]_vars

\* A parse has returned in which all three routines took snapshots, an
\* inner snapshot was resolved while an outer one was open, and both
\* a Commit and a Rollback happened.
C20_Witness ==
  /\ Returned
  /\ \A site \in {"cast", "nested_name_specifier",
                  "template_argument type_id",
                  "template_argument id_expression"} :
       \E i \in 1..Len(log) : IsAcquire(log[i]) /\ log[i][2] = site
  /\ \E i, j \in 1..Len(log) :
       /\ Matches(log, i, j)
       /\ \E k \in (i + 1)..(j - 1) : IsResolution(log[k])
  /\ \E j, k \in 1..Len(log) : IsCommit(log[j]) /\ IsRollback(log[k])

-----------------------------------------------------------------------------
(* C21 *)

Answered(fn) == status = "answered" /\ call.fn = fn

\* The lines of str: the pieces between its line breaks.
RECURSIVE Lines(_)
Lines(str) ==
  LET breaks == {i \in 1..Len(str) : SubSeq(str, i, i) = "\n"}
  IN  IF breaks = {} THEN <<str>>
      ELSE LET first == Min(breaks)
           IN  <<SubSeq(str, 1, first - 1)>>
                 \o Lines(SubSeq(str, first + 1, Len(str)))

\* The text before the location, line by line: the location is on the
\* last of these lines, right after its last character.
BeforeLocation == Lines(SubSeq(call.text, 1, call.loc_offset))
LocationLine == Len(BeforeLocation)
LocationColumn == Len(Last(BeforeLocation)) + 1
SourceLine == Lines(call.text)[LocationLine]

WidthOfSlot == IF Len(SourceLine) > LocationColumn THEN Len(SourceLine)
               ELSE LocationColumn

\* C21: FormatDiagnostics renders exactly three lines: "file:line:col:
\* message", the source line containing the location, and a caret line in
\* which "^" is preceded by exactly col - 1 spaces, col being the 1-based
\* column of the location.  The source line is right-padded with spaces
\* when col is past its end, so that the second and the third line both
\* have the width max(length of the source line, col).
C21_ThreeLinesWithCaret ==
  Answered("FormatDiagnostics") =>
    LET rendered == Lines(result)
    IN  /\ Len(rendered) = 3
        /\ rendered[1] = call.file \o ":" \o ToString(LocationLine) \o ":"
                           \o ToString(LocationColumn) \o ": "
                           \o call.message
        /\ rendered[2] = SourceLine
                           \o Spaces(LocationColumn - Len(SourceLine))
        /\ SubSeq(rendered[3], 1, LocationColumn) =
             Spaces(LocationColumn - 1) \o "^"
        /\ Len(rendered[2]) = WidthOfSlot
        /\ Len(rendered[3]) = WidthOfSlot

\* A diagnostic at the end of the second line of a buffer, one column past
\* the last character of that line.
C21_Witness ==
  /\ Answered("FormatDiagnostics")
  /\ call.text = "a\naa"
  /\ call.loc_offset = 4
  /\ result = "<expr>:2:3: m\naa \n  ^"

-----------------------------------------------------------------------------
(* C22 *)

IsSelector(t) == t \in {PERIOD, ARROW}

\* The last n tokens of toks and what comes before them.
LastTokens(toks, n) == SubSeq(toks, Len(toks) - n + 1, Len(toks))
Before(toks, n) == SubSeq(toks, 1, Len(toks) - n)

\* The length of the postfix step that ends toks, 0 if none does: a
\* subscript "[ a ]", or a selector with the name "a" or "T::a".
LastStep(toks) ==
  IF Len(toks) > 3 /\ LastTokens(toks, 3) = <<L_SQUARE, a_, R_SQUARE>>
    THEN 3
  ELSE IF Len(toks) > 4 /\ IsSelector(toks[Len(toks) - 3])
          /\ LastTokens(toks, 3) = <<T_, COLONCOLON, a_>>
    THEN 4
  ELSE IF Len(toks) > 2 /\ IsSelector(toks[Len(toks) - 1])
          /\ toks[Len(toks)] = a_
    THEN 2
  ELSE 0

\* toks is the identifier a followed by complete postfix steps.
RECURSIVE IsChain(_)
IsChain(toks) ==
  \/ toks = <<a_>>
  \/ LastStep(toks) > 0 /\ IsChain(Before(toks, LastStep(toks)))

\* The tree of a chain: its last step applied to the tree of what comes
\* before it.
RECURSIVE ChainTree(_)
ChainTree(toks) ==
  IF toks = <<a_>> THEN IdentifierNode("a", FALSE)
  ELSE LET n == LastStep(toks)
           base == ChainTree(Before(toks, n))
           step == LastTokens(toks, n)
       IN  IF step[1] = L_SQUARE
             THEN BinaryOpNode("l_square", base, IdentifierNode("a", FALSE))
             ELSE MemberOfNode(IF step[1] = PERIOD THEN "OF_OBJECT"
                               ELSE "OF_POINTER",
                               base,
                               IF n = 2 THEN "a" ELSE "T::a")

\* A selector of toks is followed by no name: by the end of the text or by
\* a token that begins no id_expression.
MissingMemberName(toks) ==
  \E i \in 1..Len(toks) :
    /\ IsSelector(toks[i])
    /\ i < Len(toks) => toks[i + 1].kind \notin {"identifier", "coloncolon"}

Count(toks, t) == Cardinality({i \in 1..Len(toks) : toks[i] = t})

\* Some "[" of toks has no "]".
MissingBracket(toks) == Count(toks, L_SQUARE) > Count(toks, R_SQUARE)

\* C22: postfix member accesses and subscripts chain left to right on the
\* primary expression.  "." builds MemberOf(OF_OBJECT, base, name) and "->"
\* builds MemberOf(OF_POINTER, base, name), the name being the id_expression
\* after the selector, and "a[b]" builds Binary(l_square, a, b); so
\* "a -> a . a" is MemberOf(OF_OBJECT, MemberOf(OF_POINTER, a, "a"), "a").
\* A text with a missing member name or a missing "]" fails.
C22_PostfixChainsLeftToRight ==
  Returned =>
    /\ IsChain(tokens) => ~IsSet(error) /\ expr = ChainTree(tokens)
    /\ tokens = <<a_, ARROW, a_, PERIOD, a_>> =>
         expr = MemberOfNode("OF_OBJECT",
                             MemberOfNode("OF_POINTER",
                                          IdentifierNode("a", FALSE), "a"),
                             "a")
    /\ (MissingMemberName(tokens) \/ MissingBracket(tokens)) =>
         IsSet(error) /\ expr = ErrorNode

\* A member of a subscript of a pointer's member has been parsed.
C22_Witness ==
  /\ Returned
  /\ tokens = <<a_, ARROW, a_, L_SQUARE, a_, R_SQUARE, PERIOD, T_,
                COLONCOLON, a_>>
  /\ expr = MemberOfNode("OF_OBJECT",
                         BinaryOpNode("l_square",
                                      MemberOfNode("OF_POINTER",
                                                   IdentifierNode("a", FALSE),
                                                   "a"),
                                      IdentifierNode("a", FALSE)),
                         "T::a")

-----------------------------------------------------------------------------
(* C23 *)

\* C23: a null return of TypeConstraints::allowed_tagged_types() indicates
\* that any kind of tagged type is allowed.  For every TypeConstraints
\* value, built from NoType, from AnyType or from any SpecificTypes,
\* whenever allowed_tagged_types() returns null, allows_tagged_types()
\* returns true; and the unconstrained AnyType value answers true to
\* allows_tagged_types().
C23_NullMeansAnyTaggedType ==
  Answered("TypeConstraints") =>
    /\ result.allowed_tagged_types = nullptr => result.allows_tagged_types
    /\ call.argument = AnyType => result.allows_tagged_types

-----------------------------------------------------------------------------
(* C24 *)

\* The routines that loop on the current token: the binary operator levels
\* and the postfix level.
LoopRoutines ==
  {"ParseLogicalOrExpression", "ParseLogicalAndExpression",
   "ParseInclusiveOrExpression", "ParseExclusiveOrExpression",
   "ParseAndExpression", "ParseEqualityExpression",
   "ParseRelationalExpression", "ParseShiftExpression",
   "ParseAdditiveExpression", "ParseMultiplicativeExpression",
   "ParsePostfixExpression"}

\* A loop routine is about to test its loop condition.
AtLoopCondition ==
  /\ status = "running"
  /\ stack # <<>>
  /\ Top.fn \in LoopRoutines
  /\ ~At("start")

\* The step rolls no snapshot back.
NoRollback == \A j \in NewEvents : ~IsRollback(log'[j])

\* C24: at every point of a parse, if the error slot is non-empty the
\* kind of the current token is end-of-input.  From the moment an error is
\* recorded and as long as it is not rolled back, ConsumeToken does
\* nothing, no further token is lexed, and every precedence loop and the
\* postfix loop exits instead of going on, until Run returns.
C24_ErrorForcesEndOfInput ==
  [][/\ IsSet(error_) => token_.kind = "eof"
     /\ IsSet(error_') => token_'.kind = "eof"
     /\ IsSet(error_) => ConsumeToken(P) = P
     /\ (IsSet(error_) /\ NoRollback) =>
          /\ pos' = pos
          /\ token_' = token_
          /\ AtLoopCondition => stack' = Callers]_vars

\* "a ++ < a" has returned: the postfix "++" recorded the error, the
\* relational loop left, and "<" and "a" were never lexed.
C24_Witness ==
  /\ Returned
  /\ tokens = <<a_, PLUSPLUS, LESS, a_>>
  /\ error.code = "kNotImplemented"
  /\ pos = 3

-----------------------------------------------------------------------------
(* C25 *)

\* The executing routine returns to its caller in this step.
Returns(fn) == Running(fn) /\ stack' = Callers

\* The executing routine calls another one and waits for it.
Calls(fn) == Running(fn) /\ Len(stack') > Len(stack)

\* The snapshot that the last event of l commits was taken at position
\* MatchingAcquire(l, Len(l))[4].
CommittedFrom(l) == MatchingAcquire(l, Len(l))[4]

\* C25: for every finite token sequence Run terminates.  A parse that has
\* not returned always has a next step, and it takes fewer than MaxSteps
\* steps.  Every iteration of a loop consumes at least one token or ends
\* the loop: an operator loop or the postfix loop that does not return
\* has consumed its operator; a type specifier that is found, and so
\* continues the type_specifier_seq loop, has consumed a token; the
\* ptr_operator loop consumes a token for every declarator it adds; a
\* template argument that is found has consumed a token, and the
\* template_argument_list loop goes on only by consuming a comma.  This
\* holds after rollbacks and after an error as well.
C25_RunTerminates ==
  /\ [](status \in {"constructed", "running"} =>
          ENABLED Next /\ steps < MaxSteps)
  /\ [][/\ steps' = steps + 1
        /\ AtLoopCondition => stack' = Callers \/ pos' > pos
        /\ (Returns("ParseTypeSpecifier") /\ ret'.type_specifier) =>
             pos' > (IF At("start") THEN pos ELSE Top.entry)
        /\ (Returns("ParseTypeId") /\ ~At("start")) =>
             pos' - pos >= Len(ret'.ptr_operators_)
                             - Len(ret.ptr_operators_)
        /\ (Returns("ParseTemplateArgument") /\ ret' # "") =>
             /\ IsCommit(Last(log'))
             /\ pos' > CommittedFrom(log')
        /\ (Calls("ParseTemplateArgumentList") /\ ~At("start")) =>
             pos' > pos]_vars

\* A parse has returned after it rolled a snapshot back, went twice
\* through the template_argument_list loop and recorded an error.
C25_Witness ==
  /\ Returned
  /\ IsSet(error)
  /\ \E j \in 1..Len(log) : IsRollback(log[j])
  /\ \E i, j \in 1..Len(log) :
       /\ i < j
       /\ IsCommit(log[i]) /\ log[i][2] = "template_argument type_id"
       /\ IsCommit(log[j]) /\ log[j][2] = "template_argument type_id"

-----------------------------------------------------------------------------
(* C26: Run returns no error only if the whole text was consumed as one    *)
(* expression: every token has been lexed and the current token is the    *)
(* end of input.  When the top-level expression parsed without an error   *)
(* and a token remains after it, Run stores kUnknown for that token and   *)
(* returns the Error sentinel although the prefix gave a node; so it is   *)
(* for `1 2`, `a, a`, `a = a` and `a )`.                                  *)

\* Texts in which one token or more follows a complete expression.
TrailingTokens ==
  { <<Num("1"), Num("2")>>, <<a_, COMMA, a_>>, <<a_, EQUAL, a_>>,
    <<a_, R_PAREN>> }

\* Run is about to check for the end of input, after an expression that
\* parsed without an error and stopped before the end of the text.
TokenRemains ==
  /\ status = "running"
  /\ Running("Run")
  /\ ~IsSet(error_)
  /\ token_.kind # "eof"

C26_WholeTextOrError ==
  /\ []((Returned /\ ~IsSet(error)) =>
          /\ token_ = TokenAt(EofLoc)
          /\ pos = EofLoc + 1
          /\ expr # ErrorNode)
  /\ []((Returned /\ tokens \in TrailingTokens) =>
          /\ error.code = "kUnknown"
          /\ error.message = <<<<"expected", "eof", tokens[2].sp>>, 2>>
          /\ expr = ErrorNode)
  /\ [][TokenRemains =>
          /\ status' = "returned"
          /\ ret # ErrorNode
          /\ error'.code = "kUnknown"
          /\ error'.message = <<<<"expected", "eof", token_.sp>>, token_.loc>>
          /\ expr' = ErrorNode]_vars

C26_Witness ==
  /\ Returned
  /\ tokens = <<a_, EQUAL, a_>>
  /\ error.code = "kUnknown"
  /\ expr = ErrorNode
  /\ pos = 3

-----------------------------------------------------------------------------
(* C27: whenever a snapshot is acquired the error slot is empty, and no    *)
(* snapshot is committed while an error is recorded, so none raised        *)
(* inside it is.  Hence the error a rollback discards was raised after    *)
(* the snapshot it resolves was taken, never before, and the empty slot a *)
(* rollback leaves is the slot as it was at the acquisition.              *)

\* The index in l of the acquisition that event j of l resolves.
AcquiredAt(l, j) == CHOOSE i \in 1..(j - 1) : Matches(l, i, j)

\* The last event of l before event j that is a BailOut which stored its
\* error in the slot, 0 if there is none.
LastRecorded(l, j) ==
  Max({0} \cup {k \in 1..(j - 1) : IsBail(l[k]) /\ l[k][4]})

C27_RollbackDiscardsOnlyItsOwnErrors ==
  /\ ~IsSet(error_) => error_ = NoError
  /\ \A j \in 1..Len(log) :
       /\ IsAcquire(log[j]) => log[j][5] = "kOk"
       /\ IsCommit(log[j]) => log[j][3] = "kOk"
       /\ IsRollback(log[j]) =>
            /\ log[AcquiredAt(log, j)][5] = "kOk"
            /\ log[j][5] # "kOk" =>
                 /\ LastRecorded(log, j) > AcquiredAt(log, j)
                 /\ log[LastRecorded(log, j)][2] = log[j][5]
  /\ (status = "running" /\ log # <<>> /\ IsRollback(Last(log))) =>
       error_ = NoError

C27_Witness ==
  /\ Returned
  /\ IsSet(error)
  /\ \E i, j, k \in 1..Len(log) :
       /\ i < j
       /\ IsRollback(log[i]) /\ log[i][5] # "kOk"
       /\ IsCommit(log[j])
       /\ IsRollback(log[k]) /\ log[k][5] = "kOk"

====
